---- MODULE Spec2Model ----
(***************************************************************************)
(* Model of the whiteboard session server with LMDB persistence            *)
(* (src/server.js lines 242-1092): the session registry, the durable       *)
(* store, the HTTP API handlers and the WebSocket front end.               *)
(*                                                                         *)
(* JavaScript runs every handler to completion, so each handler is one     *)
(* action.  A handler is written as a chain of steps over a record m of    *)
(* the mutable program state (registry, heap, db, sockets, uuid counter)   *)
(* plus two per-handler logs: m.trace, the order of the store writes,      *)
(* socket sends and HTTP responses the handler performs, and m.sent, the   *)
(* frames it writes to each socket.                                        *)
(*                                                                         *)
(* Strings that the code cuts or tests for emptiness (identifiers) are     *)
(* sequences of 8-character chunks, each chunk a number: "" is <<>>.       *)
(* JavaScript objects are functions from field names to values; a field    *)
(* the object lacks is outside the function's domain.                      *)
(***************************************************************************)
EXTENDS Integers, Sequences, FiniteSets, TLC

VARIABLES
  registry,   \* the `sessions` Map: session identifier -> session object reference
  heap,       \* session objects by reference: [id, elements, clients, createdAt]
  db,         \* the LMDB store: session identifier -> [id, elements, createdAt]
  sockets,    \* per WebSocket: readyState, the fields and closure set at attach
  timers,     \* pending eviction timers, in the order setTimeout armed them
  nextUuid,   \* number of uuidv4() values drawn so far for element identifiers
  now,        \* Date.now()
  opSeq,      \* number of handlers so far that changed an element sequence
  wire,       \* per connected socket: the numbers of the handlers whose mutation frames
              \* it was sent, in order
  scope,      \* what the environment does in this behaviour (a bound, see Scopes)
  bufferedAmount, \* per socket: frames given to send() that its peer has not read yet
  view,       \* per socket: the element list of the browser client behind it, for a client
              \* that only listens (live); a client that has sent an edit is not followed
  browser,    \* per browser client (a Whiteboard object of app.js): elements, undoStack,
              \* redoStack, its WebSocket and what the user has done so far
  net,        \* per socket: the frames under way to the server (up) and to the client (down)
  last        \* the handler that ran last: its input, response and logs

vars == <<registry, heap, db, sockets, timers, nextUuid, now, opSeq, wire, scope,
          bufferedAmount, view, browser, net, last>>

----------------------------------------------------------------------------
(* Bounds of the model *)

MaxOps == 2         \* mutations of element sequences in one behaviour
MaxTicks == 2       \* clock advances in one behaviour
MaxBatch == 2       \* longest batch body
QueueBound == 3     \* frames an outbound queue may hold; longer queues are not told apart
MaxConns == 3        \* connections the in-memory variant accepts in one behaviour
MaxDraws == 52       \* shapes one page draws in one behaviour

(* Program constants *)

MaxHistorySize == 50
EvictionDelay == 60000
TickMs == EvictionDelay \div 2    \* the clock advances in steps of half the eviction delay

SessionIds == {"s1", "s2"}
Sockets == {1, 2}        \* connections, numbered
Browsers == {1, 2}       \* browser clients
Refs == 1 .. (Cardinality(SessionIds) + Cardinality(Sockets))

----------------------------------------------------------------------------
(* Strings as chunk sequences *)

EmptyStr == <<>>
IdA == <<1>>
IdB == <<2>>
IdC == <<3>>
IdD == <<4>>
ApiUser == <<9>>

\* uuidv4() never returns the same value twice: the n-th value drawn for an element
\* identifier, and the value drawn for connection w's user identifier
Uuid(n) == <<100 + n, 200 + n>>
ConnUuid(w) == <<300 + w, 400 + w>>

\* String.prototype.substring(from, to), for offsets that are multiples of 8
Substring(s, from, to) ==
  SubSeq(s, (from \div 8) + 1, IF to \div 8 < Len(s) THEN to \div 8 ELSE Len(s))

----------------------------------------------------------------------------
(* JavaScript objects *)

Has(o, k) == k \in DOMAIN o

Spread(a, b) ==
  [k \in (DOMAIN a) \cup (DOMAIN b) |-> IF k \in DOMAIN b THEN b[k] ELSE a[k]]

Put(f, k, v) == [x \in (DOMAIN f) \cup {k} |-> IF x = k THEN v ELSE f[x]]

Drop(f, k) == [x \in (DOMAIN f) \ {k} |-> f[x]]

Empty == [x \in {} |-> 0]

(* Array helpers *)

RECURSIVE FindIndexFrom(_, _, _)
FindIndexFrom(elements, id, i) ==
  IF i > Len(elements) THEN 0
  ELSE IF Has(elements[i], "id") /\ elements[i].id = id THEN i
  ELSE FindIndexFrom(elements, id, i + 1)

\* Array.prototype.findIndex(el => el.id === id), 1-based; 0 stands for -1
FindIndex(elements, id) == FindIndexFrom(elements, id, 1)

\* Array.prototype.splice(index, 1)
Splice(elements, i) ==
  SubSeq(elements, 1, i - 1) \o SubSeq(elements, i + 1, Len(elements))

\* Array.prototype.filter(el => el.id !== id)
Filter(elements, id) ==
  SelectSeq(elements, LAMBDA el : ~(Has(el, "id") /\ el.id = id))

----------------------------------------------------------------------------
(* Inputs *)

InputIds == {IdA, IdD}

ValidTypes == {"rectangle", "circle", "line", "pen", "text", "note"}

InputTypes == {"rectangle", "arrow", "bogus"}

\* request and frame element bodies: with or without type, with or without id
InputElements ==
  { [x |-> 1] }
  \cup { [type |-> t, x |-> 1] : t \in InputTypes }
  \cup { [type |-> "rectangle", id |-> i, x |-> 1] : i \in {IdA, EmptyStr} }

\* element bodies of socket draw frames
DrawElements ==
  { [type |-> "rectangle", x |-> 1], [type |-> "rectangle", id |-> IdA, x |-> 1],
    [type |-> "bogus", id |-> EmptyStr, x |-> 1] }

Patches == { [x |-> 2], [id |-> IdB, x |-> 2] }

BatchElements == { [type |-> "rectangle", x |-> 1], [type |-> "bogus", x |-> 1] }

RECURSIVE SeqsUpTo(_, _)
SeqsUpTo(S, n) ==
  IF n = 0 THEN { <<>> }
  ELSE SeqsUpTo(S, n - 1)
       \cup { Append(q, e) : q \in { p \in SeqsUpTo(S, n - 1) : Len(p) = n - 1 }, e \in S }

Batches == SeqsUpTo(BatchElements, MaxBatch) \cup { <<[type |-> "arrow", x |-> 1]>> }

\* the element body of a move frame for identifier i: same id, another id, no id
MoveElements(i) ==
  { [type |-> "rectangle", id |-> i, x |-> 2],
    [type |-> "rectangle", id |-> IdB, x |-> 2],
    [type |-> "rectangle", x |-> 2] }

Positions == {"front", "back", "middle"}

NoSocket == 0      \* null where the code expects a socket; also the origin of HTTP requests

----------------------------------------------------------------------------
(* The program state a handler works on, with empty logs *)

Cur ==
  [ registry |-> registry, heap |-> heap, db |-> db, sockets |-> sockets,
    timers |-> timers, nextUuid |-> nextUuid,
    applied |-> 0,
    trace |-> <<>>,
    sent |-> [w \in Sockets |-> <<>>],
    status |-> 0,
    body |-> <<>>,
    fail |-> "ok",        \* what db.put does in this handler: "ok", "throws", "rejects"
    thrown |-> FALSE ]    \* an exception is propagating: the rest of the handler is skipped

\* the same, in a handler during which the store does not accept writes
CurFail(f) == [Cur EXCEPT !.fail = f]

\* the reference of a session object not yet in use
NewRef(m) == CHOOSE r \in Refs \ DOMAIN m.heap : \A q \in Refs \ DOMAIN m.heap : r <= q

\* db.put(sessionId, {id, elements, createdAt}). The result of db.put is discarded: a
\* write that fails either throws out of saveSession or rejects a promise nobody holds.
SaveSession(m, sessionId) ==
  IF m.thrown \/ sessionId \notin DOMAIN m.registry THEN m
  ELSE IF m.fail = "throws"
  THEN [m EXCEPT !.thrown = TRUE, !.trace = Append(@, [ev |-> "throw", key |-> sessionId])]
  ELSE IF m.fail = "rejects"
  THEN [m EXCEPT !.trace = Append(@, [ev |-> "reject", key |-> sessionId])]
  ELSE LET session == m.heap[m.registry[sessionId]] IN
       [m EXCEPT !.db = Put(@, sessionId,
                            [id |-> session.id, elements |-> session.elements,
                             createdAt |-> session.createdAt]),
                 !.trace = Append(@, [ev |-> "put", key |-> sessionId])]

\* a restore that stamps the session with the time of the restore
RestoredNow(persisted) ==
  [id |-> persisted.id, elements |-> persisted.elements, clients |-> <<>>, createdAt |-> now]

\* the session object built from the store's record
Restored(persisted) ==
  [id |-> persisted.id, elements |-> persisted.elements, clients |-> <<>>,
   createdAt |-> persisted.createdAt]

GetOrCreateSession(m, sessionId) ==
  IF sessionId \in DOMAIN m.registry THEN m
  ELSE LET r == NewRef(m) IN
       IF sessionId \in DOMAIN m.db
       THEN LET persisted == m.db[sessionId] IN
            [m EXCEPT !.registry = Put(@, sessionId, r),
                      !.heap = Put(@, r, Restored(persisted))]
       ELSE SaveSession(
              [m EXCEPT !.registry = Put(@, sessionId, r),
                        !.heap = Put(@, r, [id |-> sessionId, elements |-> <<>>,
                                            clients |-> <<>>, createdAt |-> now])],
              sessionId)

\* a send that puts the frame ahead of the frames already written to the socket
SendFirst(m, w, frame, op, idx) ==
  [m EXCEPT !.sent[w] = <<[frame |-> frame, op |-> op, idx |-> idx]>> \o @,
            !.trace = Append(@, [ev |-> "send", to |-> w])]

\* ws.send(JSON.stringify(frame)); op and idx name the mutation the frame reports
Send(m, w, frame, op, idx) ==
  IF m.thrown THEN m
  ELSE [m EXCEPT !.sent[w] = Append(@, [frame |-> frame, op |-> op, idx |-> idx]),
                 !.trace = Append(@, [ev |-> "send", to |-> w])]

RECURSIVE ForEachClient(_, _, _, _, _, _, _)
ForEachClient(m, clients, i, frame, op, idx, excludeClient) ==
  IF i > Len(clients) THEN m
  ELSE LET client == clients[i]
           m1 == IF client # excludeClient /\ m.sockets[client].readyState = "OPEN"
                 THEN Send(m, client, frame, op, idx)
                 ELSE m
       IN ForEachClient(m1, clients, i + 1, frame, op, idx, excludeClient)

\* a broadcast that forgets the excluded client
BroadcastEcho(m, ref, frame, op, idx, excludeClient) ==
  ForEachClient(m, m.heap[ref].clients, 1, frame, op, idx, NoSocket)

Broadcast(m, ref, frame, op, idx, excludeClient) ==
  ForEachClient(m, m.heap[ref].clients, 1, frame, op, idx, excludeClient)

\* a broadcast over wss.clients (every connection of the server) instead of session.clients
BroadcastServerWide(m, ref, frame, op, idx) ==
  ForEachClient(m, [i \in 1 .. Cardinality(Sockets) |-> i], 1, frame, op, idx, NoSocket)

BroadcastAll(m, ref, frame, op, idx) ==
  ForEachClient(m, m.heap[ref].clients, 1, frame, op, idx, NoSocket)

\* res.status(status).json(body)
Respond(m, status, body) ==
  IF m.thrown THEN m
  ELSE [m EXCEPT !.status = status, !.body = body,
                 !.trace = Append(@, [ev |-> "respond", status |-> status])]

\* express answers 500 when a route handler throws
Express(m) ==
  IF m.thrown
  THEN [m EXCEPT !.status = 500, !.body = "Internal Server Error",
                 !.trace = Append(@, [ev |-> "respond", status |-> 500])]
  ELSE m

\* session.elements = elements, as the n-th change of the running handler
SetElements(m, ref, elements) ==
  IF m.thrown THEN m
  ELSE [m EXCEPT !.heap[ref].elements = elements, !.applied = @ + 1]

TruthyId(o) == Has(o, "id") /\ o.id # EmptyStr
TruthyType(o) == Has(o, "type") /\ o.type # ""

----------------------------------------------------------------------------
(* REST API handlers *)

NotFound(m, what) == Respond(m, 404, what)

\* GET /api/sessions/:sessionId
GetSession(m, sessionId) ==
  IF sessionId \notin DOMAIN m.db THEN NotFound(m, "Session not found")
  ELSE LET m1 == GetOrCreateSession(m, sessionId)
           session == m1.heap[m1.registry[sessionId]]
       IN Respond(m1, 200, [id |-> session.id,
                            elementCount |-> Len(session.elements),
                            elements |-> session.elements,
                            userCount |-> Len(session.clients),
                            createdAt |-> session.createdAt])

\* a list handler without the db.get check of the GET handlers
GetElementsCreating(m, sessionId) ==
  LET m1 == GetOrCreateSession(m, sessionId)
  IN Respond(m1, 200, m1.heap[m1.registry[sessionId]].elements)

\* GET /api/sessions/:sessionId/elements
GetElements(m, sessionId) ==
  IF sessionId \notin DOMAIN m.db THEN NotFound(m, "Session not found")
  ELSE LET m1 == GetOrCreateSession(m, sessionId)
       IN Respond(m1, 200, m1.heap[m1.registry[sessionId]].elements)

\* GET /api/sessions/:sessionId/elements/:elementId
GetElement(m, sessionId, elementId) ==
  IF sessionId \notin DOMAIN m.db THEN NotFound(m, "Session not found")
  ELSE LET m1 == GetOrCreateSession(m, sessionId)
           elements == m1.heap[m1.registry[sessionId]].elements
           i == FindIndex(elements, elementId)
       IN IF i = 0 THEN NotFound(m1, "Element not found")
          ELSE Respond(m1, 200, elements[i])

\* { ...elementData, id: elementData.id || uuidv4(), createdBy: 'api', timestamp: Date.now() }
ApiElement(m, elementData) ==
  Spread(elementData,
         [id |-> IF TruthyId(elementData) THEN elementData.id ELSE Uuid(m.nextUuid + 1),
          createdBy |-> ApiUser,
          timestamp |-> now])

DrawUuid(m, elementData) ==
  IF m.thrown \/ TruthyId(elementData) THEN m ELSE [m EXCEPT !.nextUuid = @ + 1]

\* POST /api/sessions/:sessionId/elements
PostElement(m, sessionId, elementData) ==
  LET m1 == GetOrCreateSession(m, sessionId)
      ref == m1.registry[sessionId]
  IN IF ~TruthyType(elementData) THEN Respond(m1, 400, "Element type is required")
     ELSE IF elementData.type \notin ValidTypes THEN Respond(m1, 400, "Invalid element type")
     ELSE LET element == ApiElement(m1, elementData)
              m2 == DrawUuid(m1, elementData)
              m3 == SetElements(m2, ref, Append(m2.heap[ref].elements, element))
              m4 == SaveSession(m3, sessionId)
              m5 == BroadcastAll(m4, ref, [type |-> "draw", element |-> element],
                                 opSeq + 1, m3.applied)
          IN Respond(m5, 201, element)

RECURSIVE BatchLoop(_, _, _, _, _)
BatchLoop(m, sessionId, elementsData, i, createdElements) ==
  IF i > Len(elementsData)
  THEN Respond(SaveSession(m, sessionId), 201, createdElements)
  ELSE LET elementData == elementsData[i]
           ref == m.registry[sessionId]
       IN IF ~TruthyType(elementData)
          THEN Respond(m, 400, "Each element must have a type")
          ELSE IF elementData.type \notin ValidTypes
          THEN Respond(m, 400, "Invalid element type")
          ELSE LET element == ApiElement(m, elementData)
                   m1 == DrawUuid(m, elementData)
                   m2 == SetElements(m1, ref, Append(m1.heap[ref].elements, element))
                   m3 == BroadcastAll(m2, ref, [type |-> "draw", element |-> element],
                                      opSeq + 1, m2.applied)
               IN BatchLoop(m3, sessionId, elementsData, i + 1,
                            Append(createdElements, element))

\* POST /api/sessions/:sessionId/elements/batch; isArray tells whether the body is an array
PostBatch(m, sessionId, isArray, elementsData) ==
  LET m1 == GetOrCreateSession(m, sessionId)
  IN IF ~isArray THEN Respond(m1, 400, "Request body must be an array of elements")
     ELSE BatchLoop(m1, sessionId, elementsData, 1, <<>>)

\* an update whose body is spread last, so that its id replaces the path's
UpdatedElementBodyId(prior, reqBody, elementId) ==
  Spread(Spread(prior, [id |-> elementId, updatedBy |-> ApiUser, updatedAt |-> now]), reqBody)

\* { ...session.elements[elementIndex], ...req.body, id: elementId, updatedBy, updatedAt }
UpdatedElement(prior, reqBody, elementId) ==
  Spread(Spread(prior, reqBody), [id |-> elementId, updatedBy |-> ApiUser, updatedAt |-> now])

\* PUT /api/sessions/:sessionId/elements/:elementId
PutElement(m, sessionId, elementId, reqBody) ==
  IF sessionId \notin DOMAIN m.db THEN NotFound(m, "Session not found")
  ELSE LET m1 == GetOrCreateSession(m, sessionId)
           ref == m1.registry[sessionId]
           elements == m1.heap[ref].elements
           elementIndex == FindIndex(elements, elementId)
       IN IF elementIndex = 0 THEN NotFound(m1, "Element not found")
          ELSE LET updatedElement == UpdatedElement(elements[elementIndex], reqBody, elementId)
                   m2 == SetElements(m1, ref, [elements EXCEPT ![elementIndex] = updatedElement])
                   m3 == SaveSession(m2, sessionId)
                   m4 == BroadcastAll(m3, ref,
                                      [type |-> "move", elementId |-> elementId,
                                       element |-> updatedElement],
                                      opSeq + 1, m2.applied)
               IN Respond(m4, 200, updatedElement)

\* DELETE /api/sessions/:sessionId/elements/:elementId
DeleteElement(m, sessionId, elementId) ==
  IF sessionId \notin DOMAIN m.db THEN NotFound(m, "Session not found")
  ELSE LET m1 == GetOrCreateSession(m, sessionId)
           ref == m1.registry[sessionId]
           elements == m1.heap[ref].elements
           elementIndex == FindIndex(elements, elementId)
       IN IF elementIndex = 0 THEN NotFound(m1, "Element not found")
          ELSE LET m2 == SetElements(m1, ref, Splice(elements, elementIndex))
                   m3 == SaveSession(m2, sessionId)
                   m4 == BroadcastAll(m3, ref, [type |-> "erase", elementId |-> elementId],
                                      opSeq + 1, m2.applied)
               IN Respond(m4, 204, <<>>)

\* a clear that empties the sequence and broadcasts without saving the session
ClearElementsUnsaved(m, sessionId) ==
  IF sessionId \notin DOMAIN m.db THEN NotFound(m, "Session not found")
  ELSE LET m1 == GetOrCreateSession(m, sessionId)
           ref == m1.registry[sessionId]
           m2 == SetElements(m1, ref, <<>>)
           m4 == BroadcastAll(m2, ref, [type |-> "clear"], opSeq + 1, m2.applied)
       IN Respond(m4, 204, <<>>)

\* DELETE /api/sessions/:sessionId/elements
ClearElements(m, sessionId) ==
  IF sessionId \notin DOMAIN m.db THEN NotFound(m, "Session not found")
  ELSE LET m1 == GetOrCreateSession(m, sessionId)
           ref == m1.registry[sessionId]
           m2 == SetElements(m1, ref, <<>>)
           m3 == SaveSession(m2, sessionId)
           m4 == BroadcastAll(m3, ref, [type |-> "clear"], opSeq + 1, m2.applied)
       IN Respond(m4, 204, <<>>)

----------------------------------------------------------------------------
(* WebSocket front end *)

NewSocket ==
  [readyState |-> "NEW", userId |-> EmptyStr, sessionId |-> "", session |-> 0,
   bound |-> FALSE, closeCode |-> 0]

\* an attach that forgets to add the socket, and a detach that forgets to delete it
AddClientNone(clients, w) == clients

DeleteClientNone(clients, w) == clients

\* Set.prototype.add / delete on session.clients, kept in insertion order
AddClient(clients, w) ==
  IF \E i \in 1 .. Len(clients) : clients[i] = w THEN clients ELSE Append(clients, w)

DeleteClient(clients, w) == SelectSeq(clients, LAMBDA c : c # w)

\* an attach that adds the socket to the subscribers of every loaded session
BindAll(m, w, sessionId, ref, userId) ==
  [m EXCEPT !.heap = [r \in DOMAIN @ |-> [@[r] EXCEPT !.clients = AddClient(@, w)]],
            !.sockets[w].userId = userId,
            !.sockets[w].sessionId = sessionId,
            !.sockets[w].session = ref,
            !.sockets[w].bound = TRUE]

\* session.clients.add(ws); ws.userId = userId; ws.sessionId = sessionId; the handlers
\* registered below close over `session`
Bind(m, w, sessionId, ref, userId) ==
  [m EXCEPT !.heap[ref].clients = AddClient(@, w),
            !.sockets[w].userId = userId,
            !.sockets[w].sessionId = sessionId,
            !.sockets[w].session = ref,
            !.sockets[w].bound = TRUE]

\* a rejection that returns without closing the connection
RejectUnclosed(m, w) == m

\* ws.close(1008, 'Session ID required'); return
Reject(m, w) ==
  [m EXCEPT !.sockets[w].readyState = "CLOSING", !.sockets[w].closeCode = 1008]

\* wss.on('connection'); query is <<>> when the URL has no session parameter
Connection(m, w, query) ==
  LET opened == [m EXCEPT !.sockets[w].readyState = "OPEN"] IN
  IF query = <<>> \/ query[1] = ""
  THEN Reject(opened, w)
  ELSE LET sessionId == query[1]
           m1 == GetOrCreateSession(opened, sessionId)
           ref == m1.registry[sessionId]
           userId == Substring(ConnUuid(w), 0, 8)
           m2 == Bind(m1, w, sessionId, ref, userId)
           session == m2.heap[ref]
           m3 == Send(m2, w, [type |-> "init", userId |-> userId,
                              elements |-> session.elements,
                              userCount |-> Len(session.clients)], 0, 0)
       IN IF m1.thrown THEN m1
          ELSE BroadcastAll(m3, ref, [type |-> "userCount", count |-> Len(session.clients)],
                            0, 0)

\* an exception nobody catches ends the process: the registry, the timers and every
\* connection are gone, the store is what it was
Crash(m) ==
  [m EXCEPT !.registry = Empty, !.heap = Empty, !.timers = <<>>,
            !.sockets = [w \in Sockets |->
                           IF @[w].readyState = "NEW" THEN @[w]
                           ELSE [@[w] EXCEPT !.readyState = "CLOSED", !.bound = FALSE]]]

\* a callback that deletes the session without looking at its subscribers
EvictionTimerUnchecked(m, sessionId) ==
  IF sessionId \in DOMAIN m.registry
  THEN [m EXCEPT !.registry = Drop(@, sessionId)]
  ELSE m

\* the setTimeout callback armed by the close handler
EvictionTimer(m, sessionId) ==
  IF sessionId \in DOMAIN m.registry /\ Len(m.heap[m.registry[sessionId]].clients) = 0
  THEN [m EXCEPT !.registry = Drop(@, sessionId)]
  ELSE m

\* a close handler that reports the subscriber count it read before the delete
OnCloseStaleCount(m, w) ==
  LET ws == m.sockets[w]
      ref == ws.session
      m1 == [m EXCEPT !.heap[ref].clients = DeleteClient(@, w)]
      m2 == BroadcastAll(m1, ref, [type |-> "userCount", count |-> Len(m.heap[ref].clients)], 0, 0)
      m3 == Broadcast(m2, ref, [type |-> "userLeft", oderId |-> ws.userId], 0, 0, NoSocket)
  IN IF Len(m3.heap[ref].clients) = 0
     THEN [m3 EXCEPT !.timers = Append(@, [sessionId |-> ws.sessionId,
                                           at |-> now + EvictionDelay])]
     ELSE m3

\* ws.on('close')
OnClose(m, w) ==
  LET ws == m.sockets[w]
      ref == ws.session
      m1 == [m EXCEPT !.heap[ref].clients = DeleteClient(@, w)]
      m2 == BroadcastAll(m1, ref, [type |-> "userCount", count |-> Len(m1.heap[ref].clients)], 0, 0)
      m3 == Broadcast(m2, ref, [type |-> "userLeft", oderId |-> ws.userId], 0, 0, NoSocket)
  IN IF Len(m3.heap[ref].clients) = 0
     THEN [m3 EXCEPT !.timers = Append(@, [sessionId |-> ws.sessionId,
                                           at |-> now + EvictionDelay])]
     ELSE m3

\* push and unshift exchanged
ReorderedSwapped(elements, reorderIndex, position) ==
  LET element == elements[reorderIndex]
      spliced == Splice(elements, reorderIndex)
  IN IF position = "front" THEN <<element>> \o spliced
     ELSE IF position = "back" THEN Append(spliced, element)
     ELSE spliced

\* the splice of the element at reorderIndex, then push (front) or unshift (back)
Reordered(elements, reorderIndex, position) ==
  LET element == elements[reorderIndex]
      spliced == Splice(elements, reorderIndex)
  IN IF position = "front" THEN Append(spliced, element)
     ELSE IF position = "back" THEN <<element>> \o spliced
     ELSE spliced

\* a cursor case that saves the session like the cases around it
RelayCursorSaved(m, w, message) ==
  LET ws == m.sockets[w]
      m1 == SaveSession(m, ws.sessionId)
  IN Broadcast(m1, ws.session, [type |-> "cursor", oderId |-> ws.userId,
                                x |-> message.x, y |-> message.y], 0, 0, w)

\* case 'cursor' of handleMessage
RelayCursor(m, w, message) ==
  LET ws == m.sockets[w]
  IN Broadcast(m, ws.session, [type |-> "cursor", oderId |-> ws.userId,
                               x |-> message.x, y |-> message.y], 0, 0, w)

\* handleMessage(ws, session, message)
HandleMessage(m, w, message) ==
  LET ws == m.sockets[w]
      ref == ws.session
      elements == m.heap[ref].elements
      type == IF Has(message, "type") THEN message.type ELSE ""
  IN
  CASE type = "draw" ->
         IF ~Has(message, "element") THEN m   \* TypeError, caught by the caller
         ELSE LET element == Spread(message.element,
                               [id |-> IF TruthyId(message.element) THEN message.element.id
                                       ELSE Uuid(m.nextUuid + 1),
                                createdBy |-> ws.userId,
                                timestamp |-> now])
                  m1 == DrawUuid(m, message.element)
                  m2 == SetElements(m1, ref, Append(elements, element))
                  m3 == SaveSession(m2, ws.sessionId)
              IN Broadcast(m3, ref, [type |-> "draw", element |-> element],
                           opSeq + 1, m2.applied, w)
    [] type = "erase" ->
         LET m1 == SetElements(m, ref, Filter(elements, message.elementId))
             m2 == SaveSession(m1, ws.sessionId)
         IN Broadcast(m2, ref, [type |-> "erase", elementId |-> message.elementId],
                      opSeq + 1, m1.applied, w)
    [] type = "clear" ->
         LET m1 == SetElements(m, ref, <<>>)
             m2 == SaveSession(m1, ws.sessionId)
         IN Broadcast(m2, ref, [type |-> "clear"], opSeq + 1, m1.applied, w)
    [] type = "cursor" -> RelayCursor(m, w, message)
    [] type = "move" ->
         LET elementIndex == FindIndex(elements, message.elementId) IN
         IF elementIndex = 0 THEN m
         ELSE LET moved == Spread(message.element, [movedBy |-> ws.userId, movedAt |-> now])
                  m1 == SetElements(m, ref, [elements EXCEPT ![elementIndex] = moved])
                  m2 == SaveSession(m1, ws.sessionId)
              IN Broadcast(m2, ref, [type |-> "move", elementId |-> message.elementId,
                                     element |-> moved],
                           opSeq + 1, m1.applied, w)
    [] type = "reorder" ->
         LET reorderIndex == FindIndex(elements, message.elementId) IN
         IF reorderIndex = 0 THEN m
         ELSE LET m1 == SetElements(m, ref, Reordered(elements, reorderIndex, message.position))
                  m2 == SaveSession(m1, ws.sessionId)
              IN Broadcast(m2, ref, [type |-> "reorder", elementId |-> message.elementId,
                                     position |-> message.position],
                           opSeq + 1, m1.applied, w)
    [] OTHER -> m

\* a listener that closes the connection when it cannot parse the payload
OnMessageClosing(m, w, data) ==
  IF ~data.json THEN [m EXCEPT !.sockets[w].readyState = "CLOSING"]
  ELSE [HandleMessage(m, w, data.value) EXCEPT !.thrown = FALSE]

\* ws.on('message'): JSON.parse throws on a payload that is not JSON; the catch block
\* logs whatever the try block threw
OnMessage(m, w, data) ==
  IF ~data.json THEN m ELSE [HandleMessage(m, w, data.value) EXCEPT !.thrown = FALSE]

----------------------------------------------------------------------------
(* State machine *)

NoLogs == [w \in Sockets |-> <<>>]

\* a Whiteboard object after its constructor: this.elements = [], this.undoStack = [],
\* this.redoStack = [], this.ws = null; drawn counts the elements the user has drawn,
\* edits, undos and closes the other things that happened to it
NewBrowser ==
  [elements |-> <<>>, undoStack |-> <<>>, redoStack |-> <<>>, ws |-> NoSocket,
   readyState |-> "NONE", drawn |-> 0, edits |-> 0, undos |-> 0, closes |-> 0]

\* a connection with nothing under way
NoFrames == [up |-> <<>>, down |-> <<>>]

\* a client that is not followed: not connected, or it has sent edits of its own
NoView == [live |-> FALSE, elements |-> <<>>]

\* what an earlier run of the server can have left in the data directory
StoredElement(i) == [type |-> "rectangle", id |-> i, x |-> 1, createdBy |-> ApiUser, timestamp |-> 0]

Stored(ids) ==
  [s \in {"s1"} |-> [id |-> s, createdAt |-> 0,
                     elements |-> [i \in 1 .. Len(ids) |-> StoredElement(ids[i])]]]

\* The environment of one behaviour: the sessions it addresses, the connections it
\* opens, how many handlers may change an element sequence, how often the clock
\* advances, and the store the server starts on.
Scopes ==
  { [sessions |-> {"s1"}, sockets |-> Sockets, ops |-> MaxOps, ticks |-> 0, store |-> Empty,
     faults |-> FALSE, slow |-> FALSE],
    [sessions |-> SessionIds, sockets |-> Sockets, ops |-> MaxOps - 1, ticks |-> 0,
     store |-> Stored(<<IdA>>), faults |-> FALSE, slow |-> FALSE],
    [sessions |-> {"s1"}, sockets |-> Sockets, ops |-> MaxOps - 1, ticks |-> MaxTicks,
     store |-> Stored(<<IdA, IdB, IdC>>), faults |-> FALSE, slow |-> FALSE],
    [sessions |-> {"s1"}, sockets |-> {1}, ops |-> MaxOps, ticks |-> 0,
     store |-> Stored(<<IdA>>), faults |-> FALSE, slow |-> FALSE] }

\* an environment in which store writes can fail
FaultScopes ==
  { [sessions |-> {"s1"}, sockets |-> Sockets, ops |-> MaxOps - 1, ticks |-> MaxTicks,
     store |-> Empty, faults |-> TRUE, slow |-> FALSE] }

\* an environment whose peers are slow consumers: they do not read what they are sent
SlowScopes ==
  { [sessions |-> {"s1"}, sockets |-> Sockets, ops |-> MaxOps - 1, ticks |-> MaxTicks,
     store |-> Empty, faults |-> FALSE, slow |-> TRUE] }

\* what db.put can do in one handler
Faults == IF scope.faults THEN {"ok", "throws", "rejects"} ELSE {"ok"}

Init ==
  /\ scope \in Scopes
  /\ registry = Empty
  /\ heap = Empty
  /\ db = scope.store
  /\ sockets = [w \in Sockets |-> NewSocket]
  /\ timers = <<>>
  /\ nextUuid = 0
  /\ now = 0
  /\ opSeq = 0
  /\ wire = [w \in Sockets |-> <<>>]
  /\ bufferedAmount = [w \in Sockets |-> 0]
  /\ view = [w \in Sockets |-> NoView]
  /\ browser = [c \in Browsers |-> NewBrowser]
  /\ net = [w \in Sockets |-> NoFrames]
  /\ last = [kind |-> "start", origin |-> NoSocket, sessionId |-> "", input |-> <<>>,
             status |-> 0, body |-> <<>>, trace |-> <<>>, sent |-> NoLogs, applied |-> 0]

\* session objects still referenced by the registry or by a socket's handlers
Reachable(m) ==
  { m.registry[s] : s \in DOMAIN m.registry }
  \cup { m.sockets[w].session : w \in { v \in Sockets : m.sockets[v].bound } }

\* the stream of handler numbers continued by the mutation frames written in one handler
RECURSIVE Ops(_, _)
Ops(stream, frames) ==
  IF frames = <<>> THEN stream
  ELSE IF frames[1].op > 0 /\ (stream = <<>> \/ stream[Len(stream)] # frames[1].op)
       THEN Ops(Append(stream, frames[1].op), Tail(frames))
       ELSE Ops(stream, Tail(frames))

\* Whiteboard.handleServerMessage of the browser client, as far as this.elements goes
ClientApply(elements, message) ==
  CASE message.type = "init" -> message.elements
    [] message.type = "draw" -> Append(elements, message.element)
    [] message.type = "erase" -> Filter(elements, message.elementId)
    [] message.type = "clear" -> <<>>
    [] message.type = "move" ->
         LET moveIndex == FindIndex(elements, message.elementId) IN
         IF moveIndex = 0 THEN elements
         ELSE [elements EXCEPT ![moveIndex] = message.element]
    [] message.type = "reorder" ->
         LET reorderIndex == FindIndex(elements, message.elementId) IN
         IF reorderIndex = 0 THEN elements
         ELSE LET element == elements[reorderIndex]
                  spliced == Splice(elements, reorderIndex)
              IN IF message.position = "front" THEN Append(spliced, element)
                 ELSE IF message.position = "back" THEN <<element>> \o spliced
                 ELSE spliced
    [] OTHER -> elements

\* ws.onmessage of the client, for the frames one server handler wrote to its socket
RECURSIVE ClientReceive(_, _)
ClientReceive(v, frames) ==
  IF frames = <<>> THEN v
  ELSE ClientReceive(
         IF frames[1].frame.type = "init"
         THEN [live |-> TRUE, elements |-> ClientApply(v.elements, frames[1].frame)]
         ELSE IF v.live
         THEN [v EXCEPT !.elements = ClientApply(@, frames[1].frame)]
         ELSE v,
         Tail(frames))

\* the handler has returned: its effects become the next state
\* ws.send() queues the frame on the socket; a peer that reads takes it off at once, a
\* slow one leaves it there
Buffered(w, m) ==
  IF ~scope.slow \/ m.sockets[w].readyState = "CLOSED" THEN 0
  ELSE IF bufferedAmount[w] + Len(m.sent[w]) > QueueBound THEN QueueBound + 1
  ELSE bufferedAmount[w] + Len(m.sent[w])

Handled(kind, origin, sessionId, input, m) ==
  /\ registry' = m.registry
  /\ heap' = [r \in (DOMAIN m.heap) \cap Reachable(m) |-> m.heap[r]]
  /\ db' = m.db
  /\ sockets' = m.sockets
  /\ timers' = m.timers
  /\ nextUuid' = m.nextUuid
  /\ now' = now
  /\ opSeq' = IF m.applied > 0 THEN opSeq + 1 ELSE opSeq
  /\ wire' = [w \in Sockets |-> IF m.sockets[w].readyState = "CLOSED" THEN <<>>
                                ELSE Ops(wire[w], m.sent[w])]
  /\ scope' = scope
  /\ bufferedAmount' = [w \in Sockets |-> Buffered(w, m)]
  /\ view' = [w \in Sockets |->
               IF m.sockets[w].readyState # "OPEN" THEN NoView
               ELSE IF kind = "message" /\ origin = w /\ m.applied > 0 THEN NoView
               ELSE ClientReceive(view[w], m.sent[w])]
  /\ last' = [kind |-> kind, origin |-> origin, sessionId |-> sessionId, input |-> input,
              status |-> m.status, body |-> m.body, trace |-> m.trace, sent |-> m.sent,
              applied |-> m.applied]

\* a handler of the server whose callers and peers are not followed as browser clients
Commit(kind, origin, sessionId, input, m) ==
  /\ Handled(kind, origin, sessionId, input, m)
  /\ UNCHANGED <<browser, net>>

\* identifiers a caller can name: its own and those of stored elements
KnownIds ==
  InputIds
  \cup UNION { { heap[r].elements[i].id :
                   i \in { j \in 1 .. Len(heap[r].elements) : Has(heap[r].elements[j], "id") } }
               : r \in DOMAIN heap }

HttpGetSession(sid) ==
  Commit("GET session", NoSocket, sid, <<>>, GetSession(Cur, sid))

HttpGetElements(sid) ==
  Commit("GET elements", NoSocket, sid, <<>>, GetElements(Cur, sid))

HttpGetElement(sid, eid) ==
  Commit("GET element", NoSocket, sid, [elementId |-> eid], GetElement(Cur, sid, eid))

HttpPostElement(sid, e) ==
  /\ opSeq < scope.ops
  /\ \E f \in Faults :
       Commit("POST element", NoSocket, sid, e, Express(PostElement(CurFail(f), sid, e)))

HttpPostBatch(sid, isArray, es) ==
  /\ opSeq < scope.ops
  /\ \E f \in Faults :
       Commit("POST batch", NoSocket, sid, [isArray |-> isArray, elements |-> es],
              Express(PostBatch(CurFail(f), sid, isArray, es)))

HttpPutElement(sid, eid, patch) ==
  /\ opSeq < scope.ops
  /\ \E f \in Faults :
       Commit("PUT element", NoSocket, sid, [elementId |-> eid, body |-> patch],
              Express(PutElement(CurFail(f), sid, eid, patch)))

HttpDeleteElement(sid, eid) ==
  /\ opSeq < scope.ops
  /\ \E f \in Faults :
       Commit("DELETE element", NoSocket, sid, [elementId |-> eid],
              Express(DeleteElement(CurFail(f), sid, eid)))

HttpClearElements(sid) ==
  /\ opSeq < scope.ops
  /\ \E f \in Faults :
       Commit("DELETE elements", NoSocket, sid, <<>>, Express(ClearElements(CurFail(f), sid)))

\* connections are numbered in the order in which the server accepts them
WsConnection(w, query) ==
  /\ sockets[w].readyState = "NEW"
  /\ \A v \in Sockets : v < w => sockets[v].readyState # "NEW"
  /\ \E f \in Faults :
       LET m == Connection(CurFail(f), w, query)
       IN Commit("connection", w, IF query = <<>> THEN "" ELSE query[1], query,
                 IF m.thrown THEN Crash(m) ELSE m)

Messages ==
  { [type |-> "draw", element |-> e] : e \in DrawElements }
  \cup { [type |-> "draw"] }
  \cup { [type |-> "erase", elementId |-> i] : i \in KnownIds }
  \cup { [type |-> "clear"] }
  \cup { [type |-> "cursor", x |-> 5, y |-> 7] }
  \cup UNION { { [type |-> "move", elementId |-> i, element |-> e] : e \in MoveElements(i) }
               : i \in KnownIds }
  \cup { [type |-> "reorder", elementId |-> i, position |-> p] : i \in KnownIds, p \in Positions }
  \cup { [type |-> "ping"] }

Payloads == { [json |-> FALSE] } \cup { [json |-> TRUE, value |-> msg] : msg \in Messages }

Mutating(data) ==
  data.json /\ Has(data.value, "type")
  /\ data.value.type \in {"draw", "erase", "clear", "move", "reorder"}

WsMessage(w, data) ==
  /\ sockets[w].bound
  /\ sockets[w].readyState = "OPEN"
  /\ Mutating(data) => opSeq < scope.ops
  /\ \E f \in Faults :
       Commit("message", w, sockets[w].sessionId, data, OnMessage(CurFail(f), w, data))

\* the peer's close frame arrives, or the server's own close is under way
WsClosing(w) ==
  /\ sockets[w].readyState = "OPEN"
  /\ Commit("closing", w, sockets[w].sessionId, <<>>,
            [Cur EXCEPT !.sockets[w].readyState = "CLOSING"])

\* the connection is gone: readyState is CLOSED and the 'close' listeners run
WsClose(w) ==
  /\ sockets[w].readyState \in {"OPEN", "CLOSING"}
  /\ LET m0 == [Cur EXCEPT !.sockets[w].readyState = "CLOSED"]
         m1 == IF sockets[w].bound THEN OnClose(m0, w) ELSE m0
     IN Commit("close", w, sockets[w].sessionId, <<>>,
               [m1 EXCEPT !.sockets[w].bound = FALSE])

TimerFire ==
  /\ timers # <<>>
  /\ timers[1].at <= now
  /\ Commit("timer", NoSocket, timers[1].sessionId, <<>>,
            EvictionTimer([Cur EXCEPT !.timers = Tail(@)], timers[1].sessionId))

Tick ==
  /\ now < scope.ticks * TickMs
  /\ now' = now + TickMs
  /\ last' = [kind |-> "tick", origin |-> NoSocket, sessionId |-> "", input |-> <<>>,
              status |-> 0, body |-> <<>>, trace |-> <<>>, sent |-> NoLogs, applied |-> 0]
  /\ UNCHANGED <<registry, heap, db, sockets, timers, nextUuid, opSeq, wire, scope,
                 bufferedAmount, view, browser, net>>

\* the process is terminated and started again on the same data directory
Restart ==
  /\ registry' = Empty
  /\ heap' = Empty
  /\ timers' = <<>>
  /\ sockets' = [w \in Sockets |->
                   IF sockets[w].readyState = "NEW" THEN sockets[w]
                   ELSE [sockets[w] EXCEPT !.readyState = "CLOSED", !.bound = FALSE]]
  /\ last' = [kind |-> "restart", origin |-> NoSocket, sessionId |-> "", input |-> <<>>,
              status |-> 0, body |-> <<>>, trace |-> <<>>, sent |-> NoLogs, applied |-> 0]
  /\ wire' = [w \in Sockets |-> <<>>]
  /\ bufferedAmount' = [w \in Sockets |-> 0]
  /\ view' = [w \in Sockets |-> NoView]
  /\ UNCHANGED <<db, nextUuid, now, opSeq, scope, browser, net>>

Next ==
  \/ \E sid \in scope.sessions : HttpGetSession(sid)
  \/ \E sid \in scope.sessions : HttpGetElements(sid)
  \/ \E sid \in scope.sessions, eid \in {IdA} : HttpGetElement(sid, eid)
  \/ \E sid \in scope.sessions, e \in InputElements : HttpPostElement(sid, e)
  \/ \E sid \in scope.sessions, es \in Batches : HttpPostBatch(sid, TRUE, es)
  \/ \E sid \in scope.sessions : HttpPostBatch(sid, FALSE, <<>>)
  \/ \E sid \in scope.sessions, eid \in KnownIds, patch \in Patches : HttpPutElement(sid, eid, patch)
  \/ \E sid \in scope.sessions, eid \in KnownIds : HttpDeleteElement(sid, eid)
  \/ \E sid \in scope.sessions : HttpClearElements(sid)
  \/ \E w \in scope.sockets, q \in {<<>>, <<"">>} \cup { <<sid>> : sid \in scope.sessions } : WsConnection(w, q)
  \/ \E w \in scope.sockets, data \in Payloads : WsMessage(w, data)
  \/ \E w \in scope.sockets : WsClosing(w)
  \/ \E w \in scope.sockets : WsClose(w)
  \/ TimerFire
  \/ Tick
  \/ Restart

Spec == Init /\ [][Next]_vars

\* the same server on a store whose writes can fail
FaultInit ==
  /\ scope \in FaultScopes
  /\ registry = Empty
  /\ heap = Empty
  /\ db = scope.store
  /\ sockets = [w \in Sockets |-> NewSocket]
  /\ timers = <<>>
  /\ nextUuid = 0
  /\ now = 0
  /\ opSeq = 0
  /\ wire = [w \in Sockets |-> <<>>]
  /\ bufferedAmount = [w \in Sockets |-> 0]
  /\ view = [w \in Sockets |-> NoView]
  /\ browser = [c \in Browsers |-> NewBrowser]
  /\ net = [w \in Sockets |-> NoFrames]
  /\ last = [kind |-> "start", origin |-> NoSocket, sessionId |-> "", input |-> <<>>,
             status |-> 0, body |-> <<>>, trace |-> <<>>, sent |-> NoLogs, applied |-> 0]

FaultSpec == FaultInit /\ [][Next]_vars

----------------------------------------------------------------------------
(* The browser client (src/public/app.js). A handler of the client works on
   k = [b |-> the Whiteboard object, out |-> the messages it gave to ws.send]. *)

\* Whiteboard.generateId(): the n-th identifier browser c draws
ClientId(c, n) == <<500 + 100 * c + n>>

\* the element endDrawing builds for the n-th shape drawn in browser c
Drawn(c, n) == [id |-> ClientId(c, n), type |-> "rectangle", x |-> 1]

\* Array.prototype.splice(index, 0, element), index counted from 0
InsertAt(elements, index, element) ==
  LET i == IF index > Len(elements) THEN Len(elements) ELSE index
  IN SubSeq(elements, 1, i) \o <<element>> \o SubSeq(elements, i + 1, Len(elements))

\* Whiteboard.sendMessage
SendMessage(k, message) ==
  IF k.b.ws # NoSocket /\ k.b.readyState = "OPEN"
  THEN [k EXCEPT !.out = Append(@, message)]
  ELSE k

\* a history without the size limit
SaveToHistoryUnlimited(k, action) ==
  [k EXCEPT !.b.undoStack = Append(@, action), !.b.redoStack = <<>>]

\* Whiteboard.saveToHistory
SaveToHistory(k, action) ==
  LET pushed == Append(k.b.undoStack, action)
  IN [k EXCEPT !.b.undoStack = IF Len(pushed) > MaxHistorySize THEN Tail(pushed) ELSE pushed,
               !.b.redoStack = <<>>]

\* Whiteboard.endDrawing, for a shape that was drawn
EndDrawing(k, element) ==
  LET k1 == [k EXCEPT !.b.elements = Append(@, element)]
      k2 == SendMessage(k1, [type |-> "draw", element |-> element])
  IN SaveToHistory(k2, [type |-> "add", element |-> element])

\* Whiteboard.eraseAt, when the point hits the element at position i (from 1) first
EraseAt(k, i) ==
  LET deletedElement == k.b.elements[i]
      k1 == [k EXCEPT !.b.elements = Splice(@, i)]
      k2 == SendMessage(k1, [type |-> "erase", elementId |-> deletedElement.id])
  IN SaveToHistory(k2, [type |-> "delete", element |-> deletedElement, index |-> i - 1])

\* Whiteboard.moveToFront with the element at position i (from 1) selected
MoveToFront(k, i) ==
  LET selectedElement == k.b.elements[i]
      index == FindIndex(k.b.elements, selectedElement.id) - 1
  IN IF index = -1 \/ index = Len(k.b.elements) - 1 THEN k
     ELSE LET k1 == SaveToHistory(k, [type |-> "reorder", elementId |-> selectedElement.id,
                                      previousIndex |-> index,
                                      newIndex |-> Len(k.b.elements) - 1,
                                      position |-> "front"])
              element == k1.b.elements[index + 1]
              k2 == [k1 EXCEPT !.b.elements = Append(Splice(@, index + 1), element)]
          IN SendMessage(k2, [type |-> "reorder", elementId |-> element.id,
                              position |-> "front"])

\* Whiteboard.moveToBack with the element at position i (from 1) selected
MoveToBack(k, i) ==
  LET selectedElement == k.b.elements[i]
      index == FindIndex(k.b.elements, selectedElement.id) - 1
  IN IF index = -1 \/ index = 0 THEN k
     ELSE LET k1 == SaveToHistory(k, [type |-> "reorder", elementId |-> selectedElement.id,
                                      previousIndex |-> index, newIndex |-> 0,
                                      position |-> "back"])
              element == k1.b.elements[index + 1]
              k2 == [k1 EXCEPT !.b.elements = <<element>> \o Splice(@, index + 1)]
          IN SendMessage(k2, [type |-> "reorder", elementId |-> element.id,
                              position |-> "back"])

\* Whiteboard.handleSelectEnd at the end of a drag that moved the element at
\* position i (from 1) to the other of two places
HandleSelectEnd(k, i) ==
  LET dragOriginalState == k.b.elements[i]
      selectedElement == [dragOriginalState EXCEPT !.x = 3 - @]
      k1 == [k EXCEPT !.b.elements[i] = selectedElement]
      k2 == SaveToHistory(k1, [type |-> "move", elementId |-> selectedElement.id,
                               previousState |-> dragOriginalState,
                               newState |-> selectedElement])
  IN SendMessage(k2, [type |-> "move", elementId |-> selectedElement.id,
                      element |-> selectedElement])

\* Whiteboard.clearAll
ClearAll(k) ==
  LET k1 == IF Len(k.b.elements) > 0
            THEN SaveToHistory(k, [type |-> "clear", elements |-> k.b.elements])
            ELSE k
      k2 == [k1 EXCEPT !.b.elements = <<>>]
  IN SendMessage(k2, [type |-> "clear"])

\* action.elements.forEach(el => this.sendMessage({ type: 'draw', element: el }))
RECURSIVE SendEach(_, _, _)
SendEach(k, elements, i) ==
  IF i > Len(elements) THEN k
  ELSE SendEach(SendMessage(k, [type |-> "draw", element |-> elements[i]]), elements, i + 1)

\* Whiteboard.undo
Undo(k) ==
  IF Len(k.b.undoStack) = 0 THEN k
  ELSE
  LET action == k.b.undoStack[Len(k.b.undoStack)]
      k0 == [k EXCEPT !.b.undoStack = SubSeq(@, 1, Len(@) - 1)]
      elements == k0.b.elements
      k1 ==
        CASE action.type = "add" ->
               SendMessage([k0 EXCEPT !.b.elements = Filter(@, action.element.id)],
                           [type |-> "erase", elementId |-> action.element.id])
          [] action.type = "delete" ->
               SendMessage([k0 EXCEPT !.b.elements = InsertAt(@, action.index, action.element)],
                           [type |-> "draw", element |-> action.element])
          [] action.type = "move" ->
               LET moveIdx == FindIndex(elements, action.elementId) IN
               IF moveIdx = 0 THEN k0
               ELSE LET moveEl == Spread(elements[moveIdx], action.previousState) IN
                    SendMessage([k0 EXCEPT !.b.elements[moveIdx] = moveEl],
                                [type |-> "move", elementId |-> action.elementId,
                                 element |-> moveEl])
          [] action.type = "reorder" ->
               LET reorderIdx == FindIndex(elements, action.elementId) IN
               IF reorderIdx = 0 THEN k0
               ELSE LET element == elements[reorderIdx] IN
                    SendMessage(
                      [k0 EXCEPT !.b.elements =
                         InsertAt(Splice(@, reorderIdx), action.previousIndex, element)],
                      [type |-> "reorder", elementId |-> action.elementId,
                       position |-> IF action.previousIndex = 0 THEN "back" ELSE "front"])
          [] action.type = "clear" ->
               SendEach([k0 EXCEPT !.b.elements = action.elements], action.elements, 1)
  IN [k1 EXCEPT !.b.redoStack = Append(@, action)]

\* Whiteboard.redo
Redo(k) ==
  IF Len(k.b.redoStack) = 0 THEN k
  ELSE
  LET action == k.b.redoStack[Len(k.b.redoStack)]
      k0 == [k EXCEPT !.b.redoStack = SubSeq(@, 1, Len(@) - 1)]
      elements == k0.b.elements
      k1 ==
        CASE action.type = "add" ->
               SendMessage([k0 EXCEPT !.b.elements = Append(@, action.element)],
                           [type |-> "draw", element |-> action.element])
          [] action.type = "delete" ->
               SendMessage([k0 EXCEPT !.b.elements = Filter(@, action.element.id)],
                           [type |-> "erase", elementId |-> action.element.id])
          [] action.type = "move" ->
               LET moveIdx == FindIndex(elements, action.elementId) IN
               IF moveIdx = 0 THEN k0
               ELSE LET moveEl == Spread(elements[moveIdx], action.newState) IN
                    SendMessage([k0 EXCEPT !.b.elements[moveIdx] = moveEl],
                                [type |-> "move", elementId |-> action.elementId,
                                 element |-> moveEl])
          [] action.type = "reorder" ->
               LET reorderIdx == FindIndex(elements, action.elementId) IN
               IF reorderIdx = 0 THEN k0
               ELSE LET element == elements[reorderIdx]
                        spliced == Splice(elements, reorderIdx)
                    IN SendMessage(
                         [k0 EXCEPT !.b.elements =
                            IF action.newIndex = Len(spliced) \/ action.position = "front"
                            THEN Append(spliced, element)
                            ELSE <<element>> \o spliced],
                         [type |-> "reorder", elementId |-> action.elementId,
                          position |-> action.position])
          [] action.type = "clear" ->
               SendMessage([k0 EXCEPT !.b.elements = <<>>], [type |-> "clear"])
  IN [k1 EXCEPT !.b.undoStack = Append(@, action)]

(* The client and the server, with the frames under way between them: net[w].up
   are the messages the client gave to ws.send that the server has not handled,
   net[w].down the frames the server wrote that the client has not handled. *)

Frames(log) == [i \in 1 .. Len(log) |-> log[i].frame]

\* the page is open on the session of its URL
PageSession == "s1"

\* the Whiteboard object of browser c at the start of one of its handlers
K(c) == [b |-> browser[c], out |-> <<>>]

\* a handler of the client has returned
BrowserStep(c, gesture, k) ==
  /\ browser' = [browser EXCEPT ![c] = k.b]
  /\ net' = IF k.out = <<>> THEN net ELSE [net EXCEPT ![k.b.ws].up = @ \o k.out]
  /\ last' = [kind |-> "browser", origin |-> NoSocket, sessionId |-> PageSession,
              input |-> [browser |-> c, gesture |-> gesture],
              status |-> 0, body |-> <<>>, trace |-> <<>>, sent |-> NoLogs, applied |-> 0]
  /\ UNCHANGED <<registry, heap, db, sockets, timers, nextUuid, now, opSeq, wire, scope,
                 bufferedAmount, view>>

\* connections not yet in use by a page or by the server
FreeSockets ==
  { w \in scope.sockets :
      sockets[w].readyState = "NEW" /\ \A c \in Browsers : browser[c].ws # w }

\* Whiteboard.connectWebSocket: at page load, and three seconds after onclose
ClientConnect(c) ==
  /\ c \in scope.browsers
  /\ browser[c].readyState \in {"NONE", "CLOSED"}
  /\ \E w \in FreeSockets :
       /\ \A v \in FreeSockets : w <= v
       /\ BrowserStep(c, "connect",
                      [K(c) EXCEPT !.b.ws = w, !.b.readyState = "CONNECTING"])

\* ws.onopen: the server has accepted the connection
ClientOpen(c) ==
  /\ browser[c].readyState = "CONNECTING"
  /\ sockets[browser[c].ws].readyState # "NEW"
  /\ BrowserStep(c, "open", [K(c) EXCEPT !.b.readyState = "OPEN"])

\* ws.onmessage: handleServerMessage on the oldest frame that has arrived
ClientOnMessage(c) ==
  /\ browser[c].readyState = "OPEN"
  /\ net[browser[c].ws].down # <<>>
  /\ browser' = [browser EXCEPT ![c].elements =
                   ClientApply(@, Head(net[browser[c].ws].down))]
  /\ net' = [net EXCEPT ![browser[c].ws].down = Tail(@)]
  /\ last' = [kind |-> "browser", origin |-> NoSocket, sessionId |-> PageSession,
              input |-> [browser |-> c, gesture |-> "message",
                         frame |-> Head(net[browser[c].ws].down)],
              status |-> 0, body |-> <<>>, trace |-> <<>>, sent |-> NoLogs, applied |-> 0]
  /\ UNCHANGED <<registry, heap, db, sockets, timers, nextUuid, now, opSeq, wire, scope,
                 bufferedAmount, view>>

\* ws.onclose: the connection is gone
ClientOnClose(c) ==
  /\ browser[c].readyState \in {"CONNECTING", "OPEN"}
  /\ sockets[browser[c].ws].readyState = "CLOSED"
  /\ BrowserStep(c, "close", [K(c) EXCEPT !.b.readyState = "CLOSED"])

ClientDraw(c) ==
  /\ c \in scope.editors
  /\ browser[c].drawn < scope.draws
  /\ BrowserStep(c, "draw",
                 EndDrawing([K(c) EXCEPT !.b.drawn = @ + 1], Drawn(c, browser[c].drawn + 1)))

\* the gestures that change an element on the canvas
Edited(k, gesture, i) ==
  CASE gesture = "erase" -> EraseAt(k, i)
    [] gesture = "front" -> MoveToFront(k, i)
    [] gesture = "back" -> MoveToBack(k, i)
    [] gesture = "drag" -> HandleSelectEnd(k, i)

ClientEdit(c, gesture, i) ==
  /\ c \in scope.editors
  /\ browser[c].edits < scope.edits
  /\ i \in 1 .. Len(browser[c].elements)
  /\ BrowserStep(c, gesture, Edited([K(c) EXCEPT !.b.edits = @ + 1], gesture, i))

ClientClear(c) ==
  /\ c \in scope.editors
  /\ browser[c].edits < scope.edits
  /\ BrowserStep(c, "clear", ClearAll([K(c) EXCEPT !.b.edits = @ + 1]))

ClientUndo(c) ==
  /\ c \in scope.editors
  /\ browser[c].undos < scope.undos
  /\ browser[c].undoStack # <<>>
  /\ BrowserStep(c, "undo", Undo([K(c) EXCEPT !.b.undos = @ + 1]))

ClientRedo(c) ==
  /\ c \in scope.editors
  /\ browser[c].undos < scope.undos
  /\ browser[c].redoStack # <<>>
  /\ BrowserStep(c, "redo", Redo([K(c) EXCEPT !.b.undos = @ + 1]))

\* the frames a server handler wrote are under way to their sockets
Written(m, taken) ==
  [v \in Sockets |->
     [up |-> IF v = taken THEN Tail(net[v].up) ELSE net[v].up,
      down |-> net[v].down \o Frames(m.sent[v])]]

\* wss.on('connection') for the connection a page is opening
ServerConnection(w) ==
  /\ sockets[w].readyState = "NEW"
  /\ \E c \in Browsers : browser[c].ws = w /\ browser[c].readyState = "CONNECTING"
  /\ LET m == Connection(Cur, w, <<PageSession>>)
     IN /\ Handled("connection", w, PageSession, <<PageSession>>, m)
        /\ net' = Written(m, NoSocket)
        /\ browser' = browser

\* ws.on('message') for the oldest message under way on socket w
ServerMessage(w) ==
  /\ sockets[w].bound
  /\ sockets[w].readyState = "OPEN"
  /\ net[w].up # <<>>
  /\ LET data == [json |-> TRUE, value |-> Head(net[w].up)]
         m == OnMessage(Cur, w, data)
     IN /\ Handled("message", w, sockets[w].sessionId, data, m)
        /\ net' = Written(m, w)
        /\ browser' = browser

\* the connection of a page is lost: ws.on('close') on the server
ServerClose(w) ==
  /\ sockets[w].readyState \in {"OPEN", "CLOSING"}
  /\ \E c \in Browsers :
       /\ browser[c].ws = w
       /\ browser[c].closes < scope.closes
       /\ browser' = [browser EXCEPT ![c].closes = @ + 1]
  /\ LET m0 == [Cur EXCEPT !.sockets[w].readyState = "CLOSED"]
         m1 == IF sockets[w].bound THEN OnClose(m0, w) ELSE m0
         m == [m1 EXCEPT !.sockets[w].bound = FALSE]
     IN /\ Handled("close", w, sockets[w].sessionId, <<>>, m)
        /\ net' = Written(m, NoSocket)

\* pages and what they do in one behaviour: the browsers that open the page, those
\* that edit, and per browser the shapes drawn, the edits, the undo and redo
\* presses and the connection losses
ClientScopes ==
  { [sessions |-> {PageSession}, sockets |-> {}, ops |-> 0, ticks |-> 0, store |-> Empty,
     faults |-> FALSE, slow |-> FALSE,
     browsers |-> {}, editors |-> {1}, draws |-> MaxDraws, edits |-> 0, undos |-> 2,
     closes |-> 0],
    [sessions |-> {PageSession}, sockets |-> Sockets, ops |-> 0, ticks |-> 0, store |-> Empty,
     faults |-> FALSE, slow |-> FALSE,
     browsers |-> Browsers, editors |-> Browsers, draws |-> 1, edits |-> 0, undos |-> 0,
     closes |-> 0],
    [sessions |-> {PageSession}, sockets |-> Sockets, ops |-> 0, ticks |-> 0,
     store |-> Stored(<<IdA, IdB, IdC>>), faults |-> FALSE, slow |-> FALSE,
     browsers |-> Browsers, editors |-> {1}, draws |-> 0, edits |-> 1, undos |-> 2,
     closes |-> 0],
    [sessions |-> {PageSession}, sockets |-> Sockets, ops |-> 0, ticks |-> 0,
     store |-> Stored(<<IdA>>), faults |-> FALSE, slow |-> FALSE,
     browsers |-> {1}, editors |-> {1}, draws |-> 1, edits |-> 0, undos |-> 0,
     closes |-> 1] }

ClientInit ==
  /\ scope \in ClientScopes
  /\ registry = Empty
  /\ heap = Empty
  /\ db = scope.store
  /\ sockets = [w \in Sockets |-> NewSocket]
  /\ timers = <<>>
  /\ nextUuid = 0
  /\ now = 0
  /\ opSeq = 0
  /\ wire = [w \in Sockets |-> <<>>]
  /\ bufferedAmount = [w \in Sockets |-> 0]
  /\ view = [w \in Sockets |-> NoView]
  /\ browser = [c \in Browsers |-> NewBrowser]
  /\ net = [w \in Sockets |-> NoFrames]
  /\ last = [kind |-> "start", origin |-> NoSocket, sessionId |-> "", input |-> <<>>,
             status |-> 0, body |-> <<>>, trace |-> <<>>, sent |-> NoLogs, applied |-> 0]

ClientNext ==
  \/ \E c \in Browsers : ClientConnect(c)
  \/ \E c \in Browsers : ClientOpen(c)
  \/ \E c \in Browsers : ClientOnMessage(c)
  \/ \E c \in Browsers : ClientOnClose(c)
  \/ \E c \in Browsers : ClientDraw(c)
  \/ \E c \in Browsers, gesture \in {"erase", "front", "back", "drag"}, i \in 1 .. 3 :
       ClientEdit(c, gesture, i)
  \/ \E c \in Browsers : ClientClear(c)
  \/ \E c \in Browsers : ClientUndo(c)
  \/ \E c \in Browsers : ClientRedo(c)
  \/ \E w \in Sockets : ServerConnection(w)
  \/ \E w \in Sockets : ServerMessage(w)
  \/ \E w \in Sockets : ServerClose(w)

ClientSpec == ClientInit /\ [][ClientNext]_vars

----------------------------------------------------------------------------
(* The in-memory variant of the server (no store): its registry, its attach and
   detach handlers and the eviction timer the detach handler arms. The timer's
   callback closes over the session object of the connection that armed it. *)

\* getOrCreateSession of the in-memory variant
MemGetOrCreateSession(m, sessionId) ==
  IF sessionId \in DOMAIN m.registry THEN m
  ELSE LET r == NewRef(m) IN
       [m EXCEPT !.registry = Put(@, sessionId, r),
                 !.heap = Put(@, r, [id |-> sessionId, elements |-> <<>>,
                                     clients |-> <<>>, createdAt |-> now])]

\* wss.on('connection') of the in-memory variant; the user identifier is the next
\* value of uuidv4()
MemConnection(m, w, query) ==
  LET opened == [m EXCEPT !.sockets[w] = [NewSocket EXCEPT !.readyState = "OPEN"]] IN
  IF query = <<>> \/ query[1] = ""
  THEN Reject(opened, w)
  ELSE LET sessionId == query[1]
           m1 == MemGetOrCreateSession(opened, sessionId)
           ref == m1.registry[sessionId]
           userId == Substring(ConnUuid(m1.nextUuid + 1), 0, 8)
           m2 == Bind([m1 EXCEPT !.nextUuid = @ + 1], w, sessionId, ref, userId)
           session == m2.heap[ref]
           m3 == Send(m2, w, [type |-> "init", userId |-> userId,
                              elements |-> session.elements,
                              userCount |-> Len(session.clients)], 0, 0)
       IN BroadcastAll(m3, ref, [type |-> "userCount", count |-> Len(session.clients)], 0, 0)

\* ws.on('close') of the in-memory variant: the timer keeps the closure's session
MemOnClose(m, w) ==
  LET ws == m.sockets[w]
      ref == ws.session
      m1 == [m EXCEPT !.heap[ref].clients = DeleteClient(@, w)]
      m2 == BroadcastAll(m1, ref, [type |-> "userCount", count |-> Len(m1.heap[ref].clients)], 0, 0)
      m3 == Broadcast(m2, ref, [type |-> "userLeft", oderId |-> ws.userId], 0, 0, NoSocket)
  IN IF Len(m3.heap[ref].clients) = 0
     THEN [m3 EXCEPT !.timers = Append(@, [sessionId |-> ws.sessionId, session |-> ref,
                                           at |-> now + EvictionDelay])]
     ELSE m3

\* the setTimeout callback of the in-memory variant
MemEvictionTimer(m, timer) ==
  IF Len(m.heap[timer.session].clients) = 0
  THEN [m EXCEPT !.registry = Drop(@, timer.sessionId)]
  ELSE m

\* session objects the registry, a socket's handlers or a pending timer refer to
MemReachable(m) ==
  Reachable(m) \cup { m.timers[i].session : i \in 1 .. Len(m.timers) }

MemCommit(kind, origin, sessionId, input, m) ==
  /\ registry' = m.registry
  /\ heap' = [r \in (DOMAIN m.heap) \cap MemReachable(m) |-> m.heap[r]]
  /\ sockets' = m.sockets
  /\ timers' = m.timers
  /\ nextUuid' = m.nextUuid
  /\ last' = [kind |-> kind, origin |-> origin, sessionId |-> sessionId, input |-> input,
              status |-> m.status, body |-> m.body, trace |-> m.trace, sent |-> m.sent,
              applied |-> m.applied]
  /\ UNCHANGED <<db, now, opSeq, wire, scope, bufferedAmount, view, browser, net>>

\* a browser connects; a connection that is gone leaves its number to the next one
MemWsConnection(w, query) ==
  /\ sockets[w].readyState \in {"NEW", "CLOSED"}
  /\ nextUuid < MaxConns
  /\ MemCommit("connection", w, IF query = <<>> THEN "" ELSE query[1], query,
               MemConnection(Cur, w, query))

MemWsClose(w) ==
  /\ sockets[w].readyState \in {"OPEN", "CLOSING"}
  /\ LET m0 == [Cur EXCEPT !.sockets[w].readyState = "CLOSED"]
         m1 == IF sockets[w].bound THEN MemOnClose(m0, w) ELSE m0
     IN MemCommit("close", w, sockets[w].sessionId, <<>>,
                  [m1 EXCEPT !.sockets[w].bound = FALSE])

MemTimerFire ==
  /\ timers # <<>>
  /\ timers[1].at <= now
  /\ MemCommit("timer", NoSocket, timers[1].sessionId, <<>>,
               MemEvictionTimer([Cur EXCEPT !.timers = Tail(@)], timers[1]))

MemScopes ==
  { [sessions |-> {"s1"}, sockets |-> Sockets, ops |-> 0, ticks |-> MaxTicks,
     store |-> Empty, faults |-> FALSE, slow |-> FALSE] }

MemInit ==
  /\ scope \in MemScopes
  /\ registry = Empty
  /\ heap = Empty
  /\ db = scope.store
  /\ sockets = [w \in Sockets |-> NewSocket]
  /\ timers = <<>>
  /\ nextUuid = 0
  /\ now = 0
  /\ opSeq = 0
  /\ wire = [w \in Sockets |-> <<>>]
  /\ bufferedAmount = [w \in Sockets |-> 0]
  /\ view = [w \in Sockets |-> NoView]
  /\ browser = [c \in Browsers |-> NewBrowser]
  /\ net = [w \in Sockets |-> NoFrames]
  /\ last = [kind |-> "start", origin |-> NoSocket, sessionId |-> "", input |-> <<>>,
             status |-> 0, body |-> <<>>, trace |-> <<>>, sent |-> NoLogs, applied |-> 0]

MemNext ==
  \/ \E w \in scope.sockets, q \in {<<>>} \cup { <<sid>> : sid \in scope.sessions } :
       MemWsConnection(w, q)
  \/ \E w \in scope.sockets : MemWsClose(w)
  \/ MemTimerFire
  \/ Tick

MemorySpec == MemInit /\ [][MemNext]_vars

\* the same server with peers that do not read
SlowInit ==
  /\ scope \in SlowScopes
  /\ registry = Empty
  /\ heap = Empty
  /\ db = scope.store
  /\ sockets = [w \in Sockets |-> NewSocket]
  /\ timers = <<>>
  /\ nextUuid = 0
  /\ now = 0
  /\ opSeq = 0
  /\ wire = [w \in Sockets |-> <<>>]
  /\ bufferedAmount = [w \in Sockets |-> 0]
  /\ view = [w \in Sockets |-> NoView]
  /\ browser = [c \in Browsers |-> NewBrowser]
  /\ net = [w \in Sockets |-> NoFrames]
  /\ last = [kind |-> "start", origin |-> NoSocket, sessionId |-> "", input |-> <<>>,
             status |-> 0, body |-> <<>>, trace |-> <<>>, sent |-> NoLogs, applied |-> 0]

SlowSpec == SlowInit /\ [][Next]_vars

----------------------------------------------------------------------------
(* Vocabulary of the properties *)

Elements(sid) == heap[registry[sid]].elements

Clients(sid) == { heap[registry[sid]].clients[i] : i \in 1 .. Len(heap[registry[sid]].clients) }

OpenSubscribers(sid) == { w \in Clients(sid) : sockets[w].readyState = "OPEN" }

Succeeded == last.status \in {200, 201, 204}

FromSocket == last.kind = "message"

MessageType == IF FromSocket /\ last.input.json THEN last.input.value.type ELSE ""

HttpMutations == {"POST element", "POST batch", "PUT element", "DELETE element", "DELETE elements"}

Indexes(ev) == { i \in 1 .. Len(last.trace) : last.trace[i].ev = ev }

Ids(elements) == [i \in 1 .. Len(elements) |-> elements[i].id]

----------------------------------------------------------------------------
(* C1. Durability: for every session in the registry the store holds a record whose
   element sequence is the session's in-memory sequence, in the same order, so a
   restart on the same data directory serves exactly that sequence. *)
Durability ==
  \A sid \in DOMAIN registry :
    sid \in DOMAIN db /\ db[sid].elements = Elements(sid)

(* C2. Persist before release: in a handler that changed an element sequence and
   succeeded, the store write comes before every frame written to a subscriber and
   before the HTTP response. *)
PersistBeforeRelease ==
  (last.applied > 0 /\ (FromSocket \/ Succeeded)) =>
    /\ Indexes("put") # {}
    /\ \A i \in Indexes("send") \cup Indexes("respond"), j \in Indexes("put") : j < i

(* C3. Batch atomicity: a batch POST answered with a validation failure has added no
   element to the sequence and has written no frame to any socket. *)
BatchAtomicity ==
  (last.kind = "POST batch" /\ last.status = 400) =>
    /\ last.applied = 0
    /\ \A w \in Sockets : last.sent[w] = <<>>

(* C4. Element identity: every element of every session's sequence has a non-empty
   id, and no two elements of one session share an id. *)
ElementIdentity ==
  \A sid \in DOMAIN registry :
    /\ \A i \in 1 .. Len(Elements(sid)) : TruthyId(Elements(sid)[i])
    /\ \A i, j \in 1 .. Len(Elements(sid)) :
         i # j => Elements(sid)[i].id # Elements(sid)[j].id

(* C5. Origin exclusion: a handler run for a socket's mutation frame writes nothing
   to that socket and exactly one frame to every other open subscriber of the
   session; a successful HTTP mutation writes exactly one frame to every open
   subscriber of the session. *)
OriginExclusionOneFrame ==
  /\ (FromSocket /\ last.applied > 0) =>
       /\ last.sent[last.origin] = <<>>
       /\ \A w \in OpenSubscribers(last.sessionId) \ {last.origin} : Len(last.sent[w]) = 1
  /\ (last.kind \in HttpMutations /\ Succeeded) =>
       \A w \in OpenSubscribers(last.sessionId) : Len(last.sent[w]) = 1

(* C5 as amended. A successful HTTP mutation writes one frame per element change to
   every open subscriber of the session: one for a create, update, delete or
   clear, and one draw frame per created element for a batch create. The socket
   part is as above. *)
OriginExclusion ==
  /\ (FromSocket /\ last.applied > 0) =>
       /\ last.sent[last.origin] = <<>>
       /\ \A w \in OpenSubscribers(last.sessionId) \ {last.origin} : Len(last.sent[w]) = 1
  /\ (last.kind \in HttpMutations /\ Succeeded) =>
       \A w \in OpenSubscribers(last.sessionId) : Len(last.sent[w]) = last.applied

OriginExclusionWitness ==
  /\ FromSocket /\ last.applied > 0
  /\ sockets[last.origin].readyState = "OPEN"
  /\ \E w \in OpenSubscribers(last.sessionId) \ {last.origin} : Len(last.sent[w]) = 1

(* C6. Broadcast order: on every socket the mutation frames appear in the order in
   which the handlers changed the element sequences (handler numbers strictly
   increasing along the stream), the frames of one handler appear in the order of
   its changes, and a successful batch POST is reported to every open subscriber as
   one draw frame per created element in input order. *)
BroadcastOrder ==
  /\ \A w \in Sockets : \A i, j \in 1 .. Len(wire[w]) : i < j => wire[w][i] < wire[w][j]
  /\ \A w \in Sockets : \A i, j \in 1 .. Len(last.sent[w]) :
       (i < j /\ last.sent[w][i].op > 0) =>
         /\ last.sent[w][i].op = opSeq
         /\ last.sent[w][j].op = opSeq
         /\ last.sent[w][i].idx < last.sent[w][j].idx
  /\ (last.kind = "POST batch" /\ last.status = 201) =>
       \A w \in OpenSubscribers(last.sessionId) :
         [i \in 1 .. Len(last.sent[w]) |-> last.sent[w][i].frame.element] = last.body

BroadcastOrderWitness ==
  /\ wire[1] = <<1, 2>> /\ wire[2] = <<1, 2>>
  /\ sockets[1].readyState = "OPEN" /\ sockets[2].readyState = "OPEN"
  /\ Len(last.sent[1]) = 2 /\ Len(last.sent[2]) = 2

(* C7. Session isolation: a handler addressed to one session (an HTTP request under
   its path, a frame or the close of a socket attached to it, its eviction timer)
   leaves every other session's registry entry, element sequence, subscriber set
   and store record as they were and writes no frame to a subscriber of another
   session. *)
IsolationStep ==
  last'.kind \notin {"restart", "tick"} =>
    \A B \in SessionIds \ {last'.sessionId} :
      /\ (B \in DOMAIN registry') = (B \in DOMAIN registry)
      /\ B \in DOMAIN registry => heap'[registry'[B]] = heap[registry[B]]
      /\ (B \in DOMAIN db') = (B \in DOMAIN db)
      /\ B \in DOMAIN db => db'[B] = db[B]
      /\ \A w \in Sockets : (sockets[w].bound /\ sockets[w].sessionId = B) => last'.sent[w] = <<>>

Isolation == [][IsolationStep]_vars

IsolationWitness ==
  /\ last.applied > 0
  /\ \E B \in DOMAIN registry \ {last.sessionId} :
       /\ Elements(B) # <<>>
       /\ OpenSubscribers(B) # {}
  /\ OpenSubscribers(last.sessionId) # {}

(* C8. Reorder front/back: for an element present in the sequence, reorder with
   position "front" leaves it at the last index and with "back" at index 0; the
   sequence keeps its length and the other elements keep their relative order. *)
ReorderStep ==
  (last'.kind = "message" /\ last'.input.json /\ last'.input.value.type = "reorder"
   /\ last'.input.value.position \in {"front", "back"}) =>
    LET ref == sockets[last'.origin].session
        old == heap[ref].elements
        new == heap'[ref].elements
        i == FindIndex(old, last'.input.value.elementId)
    IN i # 0 =>
         /\ Len(new) = Len(old)
         /\ last'.input.value.position = "front" =>
              /\ new[Len(new)] = old[i]
              /\ SubSeq(new, 1, Len(new) - 1) = Splice(old, i)
         /\ last'.input.value.position = "back" =>
              /\ new[1] = old[i]
              /\ Tail(new) = Splice(old, i)

ReorderFrontBack == [][ReorderStep]_vars

ReorderWitness ==
  /\ MessageType = "reorder"
  /\ last.input.value.position = "front"
  /\ last.input.value.elementId = IdA
  /\ last.applied = 1
  /\ Ids(Elements(last.sessionId)) = <<IdB, IdC, IdA>>

(* C9. Reorder with a position other than "front" or "back" is a no-op: the element
   sequence is unchanged, nothing is written to the store and no frame is
   broadcast. *)
ReorderOtherStep ==
  (last'.kind = "message" /\ last'.input.json /\ last'.input.value.type = "reorder"
   /\ last'.input.value.position \notin {"front", "back"}) =>
    /\ heap'[sockets[last'.origin].session].elements = heap[sockets[last'.origin].session].elements
    /\ db' = db
    /\ last'.trace = <<>>
    /\ \A w \in Sockets : last'.sent[w] = <<>>

ReorderOtherNoOp == [][ReorderOtherStep]_vars

(* C10. Cursor non-persistence: a cursor frame changes no element sequence and causes
   no store write; it writes one cursor frame to every open subscriber of the
   sender's session except the sender, and nothing to any other socket. *)
CursorStep ==
  (last'.kind = "message" /\ last'.input.json /\ last'.input.value.type = "cursor") =>
    /\ registry' = registry /\ heap' = heap /\ db' = db
    /\ \A i \in 1 .. Len(last'.trace) : last'.trace[i].ev # "put"
    /\ \A w \in Sockets :
         IF w # last'.origin /\ w \in OpenSubscribers(last'.sessionId)
         THEN /\ Len(last'.sent[w]) = 1
              /\ last'.sent[w][1].frame.type = "cursor"
         ELSE last'.sent[w] = <<>>

CursorNoPersist == [][CursorStep]_vars

CursorWitness ==
  /\ MessageType = "cursor"
  /\ Elements(last.sessionId) # <<>>
  /\ \E w \in Sockets \ {last.origin} :
       /\ Len(last.sent[w]) = 1
       /\ last.sent[w][1].frame.type = "cursor"
       /\ last.sent[w][1].frame.oderId = sockets[last.origin].userId

HttpReads == {"GET session", "GET elements", "GET element"}

SevenTags == {"rectangle", "circle", "line", "arrow", "pen", "text", "note"}

(* C11. Missing session: an HTTP GET for an identifier with no store record answers
   404 and leaves registry, session objects and store as they were; a successful
   single-element or batch POST, or an accepted socket attach, leaves the session in
   the registry with a store record; a GET of the session or of its element list
   for an identifier that has a store record answers 200. *)
MissingSessionStep ==
  /\ last'.kind \in HttpReads =>
       IF last'.sessionId \notin DOMAIN db
       THEN /\ last'.status = 404
            /\ registry' = registry /\ heap' = heap /\ db' = db
       ELSE last'.kind \in {"GET session", "GET elements"} => last'.status = 200
  /\ \/ last'.kind \in {"POST element", "POST batch"} /\ last'.status = 201
     \/ last'.kind = "connection" /\ sockets'[last'.origin].bound
     => /\ last'.sessionId \in DOMAIN registry'
        /\ last'.sessionId \in DOMAIN db'
        /\ db'[last'.sessionId].id = last'.sessionId

MissingSession == [][MissingSessionStep]_vars

MissingSessionWitness ==
  /\ scope.store = Empty
  /\ last.kind = "GET elements"
  /\ last.status = 200
  /\ Len(last.body) = 1

(* C12. Schema validation on HTTP: a single-element POST is answered 201 exactly when
   the body has a type among the seven tags rectangle, circle, line, arrow, pen,
   text, note, and the element is then the last of the sequence; otherwise it is
   answered 400. *)
SchemaValidation ==
  last.kind = "POST element" =>
    IF TruthyType(last.input) /\ last.input.type \in SevenTags
    THEN /\ last.status = 201
         /\ Elements(last.sessionId) # <<>>
         /\ Elements(last.sessionId)[Len(Elements(last.sessionId))] = last.body
    ELSE last.status = 400

(* C13. Stored-type invariant: every element of every session's sequence has a type
   among the seven tags. *)
StoredTypes ==
  \A sid \in DOMAIN registry : \A i \in 1 .. Len(Elements(sid)) :
    /\ TruthyType(Elements(sid)[i])
    /\ Elements(sid)[i].type \in SevenTags

PutFailed(trace) == \E i \in 1 .. Len(trace) : trace[i].ev \in {"throw", "reject"}

(* C14. Persistence failure: a mutation of a loaded session whose store write fails is
   refused: the session's element sequence is what it was before the handler, no frame is
   written to any socket, an HTTP caller is answered 5xx and a socket caller's
   connection stays open. *)
PersistenceFailureStep ==
  (/\ last'.kind \in HttpMutations \cup {"message"}
   /\ last'.sessionId \in DOMAIN registry
   /\ PutFailed(last'.trace)) =>
    /\ heap'[registry'[last'.sessionId]].elements = heap[registry[last'.sessionId]].elements
    /\ \A w \in Sockets : last'.sent[w] = <<>>
    /\ last'.kind \in HttpMutations => last'.status >= 500
    /\ last'.kind = "message" => sockets'[last'.origin].readyState = "OPEN"

PersistenceFailure == [][PersistenceFailureStep]_vars

UserCount(n) == [type |-> "userCount", count |-> n]

(* C15. Attach sequence: after a socket has attached, it is a subscriber of the
   session and has been written exactly an init frame (its user identifier, the
   session's element sequence, the subscriber count after the attach) followed by
   a userCount frame with the same count; every other open subscriber has been
   written exactly that userCount frame, and no other socket anything. *)
AttachSequence ==
  (last.kind = "connection" /\ sockets[last.origin].bound) =>
    LET w == last.origin
        sid == last.sessionId
        n == Len(heap[registry[sid]].clients)
        init == [type |-> "init", userId |-> sockets[w].userId,
                 elements |-> Elements(sid), userCount |-> n]
    IN /\ w \in Clients(sid)
       /\ Frames(last.sent[w]) = <<init, UserCount(n)>>
       /\ \A v \in Sockets \ {w} :
            Frames(last.sent[v]) = IF v \in OpenSubscribers(sid) THEN <<UserCount(n)>> ELSE <<>>

AttachWitness ==
  /\ last.kind = "connection" /\ sockets[last.origin].bound
  /\ Elements(last.sessionId) # <<>>
  /\ \E v \in Sockets \ {last.origin} : Frames(last.sent[v]) = <<UserCount(2)>>

(* C17. Detach sequence: when the close handler of an attached socket has run, the
   socket is no subscriber of its session; every remaining open subscriber has
   been written a userCount frame with the new count and then a userLeft frame
   with the leaver's user identifier; the leaver and every other socket have been
   written nothing; the element sequence and the store are what they were. *)
DetachStep ==
  (last'.kind = "close" /\ sockets[last'.origin].bound) =>
    LET w == last'.origin
        ref == sockets[w].session
        remaining == { heap'[ref].clients[i] : i \in 1 .. Len(heap'[ref].clients) }
        n == Len(heap'[ref].clients)
    IN /\ w \notin remaining
       /\ remaining = { heap[ref].clients[i] : i \in 1 .. Len(heap[ref].clients) } \ {w}
       /\ \A v \in Sockets :
            Frames(last'.sent[v]) =
              IF v \in remaining /\ sockets'[v].readyState = "OPEN"
              THEN <<UserCount(n), [type |-> "userLeft", oderId |-> sockets[w].userId]>>
              ELSE <<>>
       /\ heap'[ref].elements = heap[ref].elements
       /\ db' = db

DetachSequence == [][DetachStep]_vars

DetachWitness ==
  /\ last.kind = "close"
  /\ last.sessionId \in DOMAIN registry
  /\ Elements(last.sessionId) # <<>>
  /\ \E v \in Sockets \ {last.origin} :
       Frames(last.sent[v]) =
         <<UserCount(1), [type |-> "userLeft", oderId |-> sockets[last.origin].userId]>>

(* C18. Eviction timing: a session leaves the registry only when its subscriber set
   is empty and has been empty for the whole eviction delay: no timer armed by a
   later detach of the same session is still pending when the session is
   evicted. *)
EvictionTimingStep ==
  last'.kind = "timer" =>
    \A sid \in (DOMAIN registry) \ (DOMAIN registry') :
      /\ heap[registry[sid]].clients = <<>>
      /\ \A i \in 1 .. Len(timers') : timers'[i].sessionId = sid => timers'[i].at <= now

EvictionTiming == [][EvictionTimingStep]_vars

(* C19. A session with an attached socket is in the registry, and the session object
   the socket's handlers hold is the one the registry maps the identifier to. *)
AttachedSessionKept ==
  \A w \in Sockets :
    sockets[w].bound =>
      /\ sockets[w].sessionId \in DOMAIN registry
      /\ registry[sockets[w].sessionId] = sockets[w].session
      /\ w \in Clients(sockets[w].sessionId)

AttachedSessionKeptWitness ==
  /\ last.kind = "timer"
  /\ last.sessionId \in DOMAIN registry
  /\ \E w \in Sockets : sockets[w].bound /\ sockets[w].sessionId = last.sessionId

\* the session object the next reference to sid obtains in a server with the given
\* registry, session objects and store
Rehydrated(reg, objects, store, sid) ==
  LET m == GetOrCreateSession([Cur EXCEPT !.registry = reg, !.heap = objects, !.db = store], sid)
  IN m.heap[m.registry[sid]]

(* C20. Eviction/rehydration round trip: an eviction leaves the store as it was, and
   the next reference to the evicted identifier obtains a session with the id, the
   createdAt and the element sequence the session had just before the eviction,
   and no subscribers. *)
RehydrationStep ==
  last'.kind = "timer" =>
    \A sid \in (DOMAIN registry) \ (DOMAIN registry') :
      /\ db' = db
      /\ Rehydrated(registry', heap', db', sid) =
           [heap[registry[sid]] EXCEPT !.clients = <<>>]

RehydrationRoundTrip == [][RehydrationStep]_vars

(* C16. Snapshot/stream consistency: the element list of a client that only listens,
   obtained from its init snapshot and the frames it received since, equals the
   element sequence of its session after every server operation. *)
SnapshotStream ==
  \A w \in Sockets :
    view[w].live => view[w].elements = heap[sockets[w].session].elements

(* C21. Idle eviction: a loaded session without subscribers is removed from the
   registry if nothing refers to it any more. Only the callback of an eviction
   timer removes a session, so every loaded session without subscribers has an
   eviction timer pending, also one that only HTTP requests loaded. *)
IdleEviction ==
  \A sid \in DOMAIN registry :
    heap[registry[sid]].clients = <<>> =>
      \E i \in 1 .. Len(timers) : timers[i].sessionId = sid

(* C22. Update: a PUT that names a stored session and the identifier of one of its
   elements answers 200 and replaces the first record with that identifier, at
   the same index: the new record has the path's identifier whatever the body
   carries, the body's value for every other field of the body, the prior value
   for every field the body does not carry, and the stamps updatedBy and
   updatedAt. The length and every other record are unchanged, the response
   carries the new record, and every open subscriber of the session is written
   exactly one move frame with that identifier and the new record; no other
   socket is written anything. *)
UpdateStep ==
  (/\ last'.kind = "PUT element"
   /\ last'.sessionId \in DOMAIN db
   /\ FindIndex(Rehydrated(registry, heap, db, last'.sessionId).elements,
                last'.input.elementId) # 0) =>
    LET sid == last'.sessionId
        elementId == last'.input.elementId
        reqBody == last'.input.body
        prior == Rehydrated(registry, heap, db, sid).elements
        i == FindIndex(prior, elementId)
        after == heap'[registry'[sid]].elements
        stamps == {"id", "updatedBy", "updatedAt"}
        clients == heap'[registry'[sid]].clients
        subscribers == { clients[n] : n \in 1 .. Len(clients) }
    IN /\ last'.status = 200
       /\ Len(after) = Len(prior)
       /\ \A j \in (1 .. Len(prior)) \ {i} : after[j] = prior[j]
       /\ after[i].id = elementId
       /\ after[i].updatedBy = ApiUser
       /\ after[i].updatedAt = now
       /\ DOMAIN after[i] = DOMAIN prior[i] \cup DOMAIN reqBody \cup stamps
       /\ \A k \in (DOMAIN reqBody) \ stamps : after[i][k] = reqBody[k]
       /\ \A k \in (DOMAIN prior[i]) \ (DOMAIN reqBody \cup stamps) : after[i][k] = prior[i][k]
       /\ last'.body = after[i]
       /\ \A v \in Sockets :
            Frames(last'.sent[v]) =
              IF v \in subscribers /\ sockets[v].readyState = "OPEN"
              THEN <<[type |-> "move", elementId |-> elementId, element |-> after[i]]>>
              ELSE <<>>

Update == [][UpdateStep]_vars

UpdateWitness ==
  /\ last.kind = "PUT element"
  /\ last.status = 200
  /\ Has(last.input.body, "id")
  /\ last.input.body.id # last.input.elementId
  /\ FindIndex(Elements(last.sessionId), last.input.elementId) > 1
  /\ \E v \in Sockets : Len(last.sent[v]) = 1

\* the message of a frame the server dispatched to handleMessage
Dispatched(step) ==
  IF step.kind = "message" /\ step.input.json THEN step.input.value ELSE [type |-> "none"]

(* C23. Delete removes one record: a DELETE that answers 204, and an erase frame
   of an attached socket that names the identifier of a record of the session,
   leave the element sequence of before without its first record with that
   identifier; all other records, later ones with the same identifier included,
   remain in their order. *)
DeleteOneStep ==
  /\ (last'.kind = "DELETE element" /\ last'.status = 204) =>
       LET prior == Rehydrated(registry, heap, db, last'.sessionId).elements
       IN heap'[registry'[last'.sessionId]].elements =
            Splice(prior, FindIndex(prior, last'.input.elementId))
  /\ (Dispatched(last').type = "erase"
      /\ FindIndex(heap[sockets[last'.origin].session].elements,
                   Dispatched(last').elementId) # 0) =>
       LET prior == heap[sockets[last'.origin].session].elements
       IN heap'[sockets[last'.origin].session].elements =
            Splice(prior, FindIndex(prior, Dispatched(last').elementId))

DeleteOne == [][DeleteOneStep]_vars

(* C24. Delete of an absent identifier: a DELETE whose identifier no record of the
   session has is answered 404, and an erase frame whose identifier no record of
   the session has is dropped; in both cases the element sequence is what it
   was, nothing is written to the store and no frame is written to any socket. *)
DeleteAbsentStep ==
  /\ (/\ last'.kind = "DELETE element"
      /\ last'.sessionId \in DOMAIN db
      /\ FindIndex(Rehydrated(registry, heap, db, last'.sessionId).elements,
                   last'.input.elementId) = 0) =>
       /\ last'.status = 404
       /\ heap'[registry'[last'.sessionId]].elements =
            Rehydrated(registry, heap, db, last'.sessionId).elements
       /\ db' = db
       /\ \A i \in 1 .. Len(last'.trace) : last'.trace[i].ev # "put"
       /\ \A v \in Sockets : last'.sent[v] = <<>>
  /\ (Dispatched(last').type = "erase"
      /\ FindIndex(heap[sockets[last'.origin].session].elements,
                   Dispatched(last').elementId) = 0) =>
       /\ heap'[sockets[last'.origin].session].elements =
            heap[sockets[last'.origin].session].elements
       /\ db' = db
       /\ \A i \in 1 .. Len(last'.trace) : last'.trace[i].ev # "put"
       /\ \A v \in Sockets : last'.sent[v] = <<>>

DeleteAbsent == [][DeleteAbsentStep]_vars

(* C25. Move keeps the identifier: after a move frame of an attached socket that
   names the identifier of a record of the session, the record at the index of
   the first such record has that identifier, whatever the frame's element
   carries; the length and every other record are unchanged. *)
MoveIdentityStep ==
  (Dispatched(last').type = "move"
   /\ FindIndex(heap[sockets[last'.origin].session].elements,
                Dispatched(last').elementId) # 0) =>
    LET prior == heap[sockets[last'.origin].session].elements
        after == heap'[sockets[last'.origin].session].elements
        i == FindIndex(prior, Dispatched(last').elementId)
    IN /\ Len(after) = Len(prior)
       /\ \A j \in (1 .. Len(prior)) \ {i} : after[j] = prior[j]
       /\ Has(after[i], "id")
       /\ after[i].id = Dispatched(last').elementId

MoveIdentity == [][MoveIdentityStep]_vars

(* C26. Attach without a session: a connection whose URL has no session parameter,
   or an empty one, is closed by the server with code 1008 and never becomes a
   subscriber; the registry, the sessions, the store, the timers and the other
   sockets are what they were and no frame is written to any socket. No frame
   from a connection closed this way is ever dispatched. *)
RejectStep ==
  /\ (last'.kind = "connection" /\ (last'.input = <<>> \/ last'.input[1] = "")) =>
       LET w == last'.origin
       IN /\ sockets[w].readyState = "NEW"
          /\ sockets'[w] = [NewSocket EXCEPT !.readyState = "CLOSING", !.closeCode = 1008]
          /\ \A v \in Sockets \ {w} : sockets'[v] = sockets[v]
          /\ registry' = registry
          /\ heap' = heap
          /\ db' = db
          /\ timers' = timers
          /\ last'.trace = <<>>
          /\ \A v \in Sockets : last'.sent[v] = <<>>
  /\ last'.kind = "message" => sockets[last'.origin].closeCode # 1008

RejectWithoutSession == [][RejectStep]_vars

RejectWitness ==
  /\ last.kind = "connection"
  /\ last.input = <<>>
  /\ sockets[last.origin].closeCode = 1008
  /\ \E sid \in DOMAIN registry : Elements(sid) # <<>> /\ OpenSubscribers(sid) # {}

SixTypes == {"draw", "erase", "clear", "cursor", "move", "reorder"}

(* C27. Malformed frames: a payload of an attached socket that is not JSON, or
   whose type is none of draw, erase, clear, cursor, move and reorder, is
   ignored: the registry, the sessions and their subscribers, the store, the
   timers and every socket are what they were, the sender stays attached and
   open, and nothing is written to the store or to any socket. *)
MalformedStep ==
  (last'.kind = "message" /\ Dispatched(last').type \notin SixTypes) =>
    /\ registry' = registry
    /\ heap' = heap
    /\ db' = db
    /\ timers' = timers
    /\ sockets' = sockets
    /\ sockets'[last'.origin].readyState = "OPEN"
    /\ \E n \in 1 .. Len(heap'[registry'[last'.sessionId]].clients) :
         heap'[registry'[last'.sessionId]].clients[n] = last'.origin
    /\ last'.trace = <<>>
    /\ \A v \in Sockets : last'.sent[v] = <<>>

MalformedIgnored == [][MalformedStep]_vars

MalformedWitness ==
  /\ last.kind = "message"
  /\ last.input.json
  /\ last.input.value.type = "ping"
  /\ last.origin \in OpenSubscribers(last.sessionId)
  /\ Elements(last.sessionId) # <<>>
  /\ OpenSubscribers(last.sessionId) # {last.origin}

(* C28. Slow consumers: the outbound queue of every subscriber is bounded: no
   socket holds more than QueueBound frames its peer has not read, because the
   server closes the subscriber whose queue a frame would overflow. *)
SlowConsumerBound ==
  \A w \in Sockets : bufferedAmount[w] <= QueueBound

(* C29. createdAt is set once: no step changes the createdAt of a record of the
   store, no step removes a record from the store, and every loaded session
   carries the createdAt of its record in the store, whatever mutations,
   evictions, rehydrations and restarts have happened. *)
CreatedAtStep ==
  /\ \A sid \in DOMAIN db :
       sid \in DOMAIN db' /\ db'[sid].createdAt = db[sid].createdAt
  /\ \A sid \in DOMAIN registry' :
       sid \in DOMAIN db' /\ heap'[registry'[sid]].createdAt = db'[sid].createdAt
  /\ \A sid \in (DOMAIN registry) \cap (DOMAIN registry') :
       heap'[registry'[sid]].createdAt = heap[registry[sid]].createdAt

CreatedAtOnce == [][CreatedAtStep]_vars

CreatedAtWitness ==
  /\ last.kind \in HttpMutations
  /\ Succeeded
  /\ now > 0
  /\ sockets[1].readyState = "CLOSED"
  /\ sockets[1].sessionId = last.sessionId
  /\ sockets[2].readyState = "NEW"
  /\ timers = <<>>
  /\ \E i \in 1 .. Len(last.trace) : last.trace[i].ev = "put"
  /\ heap[registry[last.sessionId]].createdAt = 0
  /\ db[last.sessionId].createdAt = 0

(* C30. Batch append: a batch POST whose body is an array of elements that each
   have a type among the seven tags is answered 201 with the created elements;
   the element sequence is the one of before followed by the created elements,
   which are the input elements in input order; the handler writes the store
   exactly once after the session exists, and the record it leaves holds the new
   sequence; every open subscriber is written exactly one draw frame per created
   element, in input order, and nothing else. *)
BatchAppendStep ==
  (/\ last'.kind = "POST batch"
   /\ last'.input.isArray
   /\ \A i \in 1 .. Len(last'.input.elements) :
        /\ TruthyType(last'.input.elements[i])
        /\ last'.input.elements[i].type \in SevenTags) =>
    LET sid == last'.sessionId
        elementsData == last'.input.elements
        prior == Rehydrated(registry, heap, db, sid).elements
        after == heap'[registry'[sid]].elements
        created == last'.body
        clients == heap'[registry'[sid]].clients
        subscribers == { clients[n] : n \in 1 .. Len(clients) }
        puts == { i \in 1 .. Len(last'.trace) : last'.trace[i].ev = "put" }
    IN /\ last'.status = 201
       /\ Len(created) = Len(elementsData)
       /\ \A i \in 1 .. Len(created) :
            /\ created[i].createdBy = ApiUser
            /\ \A k \in (DOMAIN elementsData[i]) \ {"id", "createdBy", "timestamp"} :
                 created[i][k] = elementsData[i][k]
       /\ after = prior \o created
       /\ Cardinality(puts) = IF sid \in DOMAIN db THEN 1 ELSE 2
       /\ db'[sid].elements = after
       /\ \A v \in Sockets :
            Frames(last'.sent[v]) =
              IF v \in subscribers /\ sockets[v].readyState = "OPEN"
              THEN [i \in 1 .. Len(created) |-> [type |-> "draw", element |-> created[i]]]
              ELSE <<>>

BatchAppend == [][BatchAppendStep]_vars

(* C32. Clear: an HTTP clear of a session that has a store record answers 204,
   and a clear frame of an attached socket is applied; either leaves the
   session's element sequence empty in memory and in the store and writes
   exactly one clear frame to every open subscriber (all of them for HTTP, all
   but the sender for a socket) and nothing to any other socket. An HTTP clear
   of an identifier without a store record answers 404 and leaves registry,
   sessions and store as they were, with no frame written. *)
ClearStep ==
  /\ last'.kind = "DELETE elements" =>
       LET sid == last'.sessionId IN
       IF sid \in DOMAIN db
       THEN LET clients == heap'[registry'[sid]].clients
                subscribers == { clients[n] : n \in 1 .. Len(clients) }
            IN /\ last'.status = 204
               /\ heap'[registry'[sid]].elements = <<>>
               /\ db'[sid].elements = <<>>
               /\ \A v \in Sockets :
                    Frames(last'.sent[v]) =
                      IF v \in subscribers /\ sockets[v].readyState = "OPEN"
                      THEN <<[type |-> "clear"]>>
                      ELSE <<>>
       ELSE /\ last'.status = 404
            /\ registry' = registry
            /\ heap' = heap
            /\ db' = db
            /\ \A v \in Sockets : last'.sent[v] = <<>>
  /\ Dispatched(last').type = "clear" =>
       LET w == last'.origin
           ref == sockets[w].session
           clients == heap'[ref].clients
           subscribers == { clients[n] : n \in 1 .. Len(clients) }
       IN /\ registry'[sockets[w].sessionId] = ref
          /\ heap'[ref].elements = <<>>
          /\ db'[sockets[w].sessionId].elements = <<>>
          /\ \A v \in Sockets :
               Frames(last'.sent[v]) =
                 IF v \in subscribers \ {w} /\ sockets[v].readyState = "OPEN"
                 THEN <<[type |-> "clear"]>>
                 ELSE <<>>

Clear == [][ClearStep]_vars

ClearWitness ==
  /\ last.kind = "DELETE elements"
  /\ last.status = 204
  /\ opSeq = 1
  /\ scope.store # Empty
  /\ Elements(last.sessionId) = <<>>
  /\ \A v \in Sockets : Frames(last.sent[v]) = <<[type |-> "clear"]>>

\* the number of times socket w occurs among the subscribers of session object r
Memberships(objects, r, w) ==
  Cardinality({ n \in 1 .. Len(objects[r].clients) : objects[r].clients[n] = w })

(* C33. Subscriber binding: after every step, each attached socket is a subscriber,
   once, of the session the registry holds for the identifier named at its
   attach, and of no other session; a socket that is not attached, in
   particular one whose close handler has run, is a subscriber of no session.
   An attached socket keeps its session until it detaches, and a frame it
   sends changes no other session, in memory or in the store. *)
BindingStep ==
  /\ \A w \in Sockets :
       IF sockets'[w].bound
       THEN /\ sockets'[w].sessionId \in DOMAIN registry'
            /\ registry'[sockets'[w].sessionId] = sockets'[w].session
            /\ \A r \in DOMAIN heap' :
                 Memberships(heap', r, w) = IF r = sockets'[w].session THEN 1 ELSE 0
       ELSE \A r \in DOMAIN heap' : Memberships(heap', r, w) = 0
  /\ \A w \in Sockets :
       (sockets[w].bound /\ sockets'[w].bound) =>
         /\ sockets'[w].sessionId = sockets[w].sessionId
         /\ sockets'[w].session = sockets[w].session
  /\ (last'.kind = "connection" /\ sockets'[last'.origin].bound) =>
       sockets'[last'.origin].sessionId = last'.input[1]
  /\ last'.kind = "close" => ~sockets'[last'.origin].bound
  /\ last'.kind = "message" =>
       /\ registry' = registry
       /\ \A sid \in (DOMAIN registry) \ {sockets[last'.origin].sessionId} :
            heap'[registry'[sid]] = heap[registry[sid]]
       /\ \A sid \in (DOMAIN db) \ {sockets[last'.origin].sessionId} :
            sid \in DOMAIN db' /\ db'[sid] = db[sid]

SubscriberBinding == [][BindingStep]_vars

SubscriberBindingWitness ==
  /\ last.kind = "message"
  /\ last.applied > 0
  /\ \A w \in Sockets : sockets[w].bound
  /\ sockets[1].sessionId # sockets[2].sessionId
  /\ Elements(sockets[1].sessionId) # Elements(sockets[2].sessionId)

(* C34. Rejected POST: a single-element POST that is answered 400 leaves the
   registry and the store exactly as they were; it neither creates nor persists
   the session it addresses. *)
RejectedPostStep ==
  (last'.kind = "POST element" /\ last'.status = 400) =>
    /\ db' = db
    /\ registry' = registry

RejectedPost == [][RejectedPostStep]_vars

\* the userCount frames among the frames of a log
UserCounts(log) == SelectSeq(Frames(log), LAMBDA frame : frame.type = "userCount")

(* C39. User count: when an attach or a detach has completed, every open
   subscriber of the session has been written, by that handler, a userCount
   frame, and the last one carries the size of the session's subscriber set;
   the init frame of an attach carries it too. No other handler changes the
   size of a loaded session's subscriber set or writes a userCount frame, so
   the last count a subscriber was told stays the size. GET of a session
   reports the same size as userCount. *)
UserCountStep ==
  /\ ((last'.kind = "connection" /\ sockets'[last'.origin].bound)
        \/ (last'.kind = "close" /\ sockets[last'.origin].bound)) =>
       LET ref == IF last'.kind = "close" THEN sockets[last'.origin].session
                  ELSE sockets'[last'.origin].session
           size == Len(heap'[ref].clients)
       IN \A v \in Sockets :
            (sockets'[v].readyState = "OPEN" /\ Memberships(heap', ref, v) = 1) =>
              /\ UserCounts(last'.sent[v]) # <<>>
              /\ UserCounts(last'.sent[v])[Len(UserCounts(last'.sent[v]))].count = size
              /\ (last'.kind = "connection" /\ v = last'.origin) =>
                   Frames(last'.sent[v])[1].userCount = size
  /\ last'.kind \notin {"connection", "close", "restart"} =>
       /\ \A v \in Sockets : UserCounts(last'.sent[v]) = <<>>
       /\ \A sid \in (DOMAIN registry) \cap (DOMAIN registry') :
            Len(heap'[registry'[sid]].clients) = Len(heap[registry[sid]].clients)
       /\ \A sid \in (DOMAIN registry') \ (DOMAIN registry) :
            heap'[registry'[sid]].clients = <<>>
  /\ (last'.kind = "GET session" /\ last'.status = 200) =>
       last'.body.userCount = Len(heap'[registry'[last'.sessionId]].clients)

UserCountAccuracy == [][UserCountStep]_vars

UserCountWitness ==
  /\ last.kind = "GET session"
  /\ last.status = 200
  /\ last.body.userCount = 1
  /\ \E w \in Sockets : sockets[w].readyState = "CLOSED" /\ sockets[w].sessionId = last.sessionId
  /\ Cardinality(OpenSubscribers(last.sessionId)) = 1

(* C35. Stale timers (in-memory variant): an eviction timer never deletes the
   registry entry of a session that has an attached subscriber; a timer armed
   by a detach from an earlier incarnation of the identifier leaves a later
   incarnation alone. *)
MemEvictionStep ==
  last'.kind = "timer" =>
    \A sid \in (DOMAIN registry) \ (DOMAIN registry') :
      heap[registry[sid]].clients = <<>>

MemEviction == [][MemEvictionStep]_vars

(* C31. History bound: after any sequence of edits, undo and redo the undo stack and
   the redo stack of a client each hold at most 50 entries, and an edit that
   changed the canvas leaves the redo stack empty. *)
HistoryStep ==
  \A c \in Browsers :
    /\ Len(browser'[c].undoStack) <= MaxHistorySize
    /\ Len(browser'[c].redoStack) <= MaxHistorySize
    /\ ( /\ last'.kind = "browser"
         /\ last'.input.browser = c
         /\ last'.input.gesture \in {"draw", "erase", "front", "back", "drag", "clear"}
         /\ browser'[c].elements # browser[c].elements )
       => browser'[c].redoStack = <<>>

HistoryBound == [][HistoryStep]_vars

HistoryBoundWitness ==
  \E c \in Browsers :
    /\ last.kind = "browser" /\ last.input.browser = c /\ last.input.gesture = "draw"
    /\ browser[c].undos > 0
    /\ Len(browser[c].undoStack) = MaxHistorySize
    /\ browser[c].undoStack[1].element = Drawn(c, 2)
    /\ browser[c].redoStack = <<>>

\* the identifiers of the session's sequence on the server, in order
ServerIds ==
  IF PageSession \in DOMAIN registry THEN Ids(heap[registry[PageSession]].elements) ELSE <<>>

\* every frame and message written has been handled by its receiver
Delivered == \A w \in Sockets : net[w].up = <<>> /\ net[w].down = <<>>

Range(seq) == { seq[i] : i \in 1 .. Len(seq) }

(* C36. Replica convergence: when two connected clients have each drawn a shape and
   every frame has been delivered, so that both hold the elements the server
   holds, both lists are in the order of the server's sequence. *)
ReplicaConvergence ==
  ( /\ Delivered
    /\ \A c \in Browsers :
         /\ browser[c].readyState = "OPEN"
         /\ browser[c].drawn = 1
         /\ Range(Ids(browser[c].elements)) = Range(ServerIds) )
  => \A c \in Browsers : Ids(browser[c].elements) = ServerIds

(* C37. Undo convergence: after a client has undone a delete or a reorder of an
   element whose original index was neither the first nor the last, and every
   frame has been delivered, the list of every connected client, holding the
   elements the server holds, is in the order of the server's sequence. *)
UndoConvergence ==
  ( /\ Delivered
    /\ \E c \in Browsers :
         /\ browser[c].undos = 1
         /\ Len(browser[c].redoStack) = 1
         /\ LET action == browser[c].redoStack[1]
            IN \/ action.type = "delete" /\ action.index \in 1 .. Len(browser[c].elements) - 2
               \/ action.type = "reorder"
                  /\ action.previousIndex \in 1 .. Len(browser[c].elements) - 2
    /\ \A c \in Browsers :
         browser[c].readyState = "OPEN" =>
           Range(Ids(browser[c].elements)) = Range(ServerIds) )
  => \A c \in Browsers :
       browser[c].readyState = "OPEN" => Ids(browser[c].elements) = ServerIds

(* C38. Reconnect: a client that has lost its connection and has opened a new one
   holds, once it has handled the init frame and nothing is under way on the new
   socket, the elements of the server's sequence in the server's order. *)
ReconnectSync ==
  \A c \in Browsers :
    ( /\ browser[c].closes > 0
      /\ browser[c].readyState = "OPEN"
      /\ sockets[browser[c].ws].readyState = "OPEN"
      /\ net[browser[c].ws] = NoFrames )
    => Ids(browser[c].elements) = ServerIds

====
